---- MODULE Spec2Model ----
(***************************************************************************)
(* Model of the streaming translation core of the Poe -> OpenAI wrapper:   *)
(*   docker/app/api.py          APIHandler.create_streaming_response and   *)
(*                              its helpers                                *)
(*   docker/app/tool_handler.py ToolCallHandler (inline-XML tool calls)    *)
(*   docker/app/native_tool_handler.py NativeToolHandler                   *)
(*                                                                         *)
(* Text is modelled at character level: a Python str is a sequence of      *)
(* one-character strings, so that substring tests, regular expressions,    *)
(* strip() and fragment boundaries are computed as the code computes them. *)
(***************************************************************************)
EXTENDS Integers, Sequences, FiniteSets, TLC

(***************************************************************************)
(* String literals of the source, as character sequences.                  *)
(***************************************************************************)
ThinkingMarker == <<"T","h","i","n","k","i","n","g",".",".",".">>
ThinkingStarted == <<"*","T","h","i","n","k","i","n","g",".",".",".","*">>
Separator == <<"\n","\n">>
ToolCallOpen == <<"<","t","o","o","l","_","c","a","l","l",">">>
ToolCallClose == <<"<","/","t","o","o","l","_","c","a","l","l",">">>
NameOpen == <<"<","n","a","m","e",">">>
NameClose == <<"<","/","n","a","m","e",">">>
ArgumentsOpen == <<"<","a","r","g","u","m","e","n","t","s",">">>
ArgumentsClose == <<"<","/","a","r","g","u","m","e","n","t","s",">">>
ImagePrefix == <<"\n","!","[","I","m","a","g","e","]","(">>
ImageSuffix == <<")","\n">>

(***************************************************************************)
(* Character classes of Python's re module and of str.strip().             *)
(***************************************************************************)
Whitespace == {" ", "\t", "\n", "\r", "\f"}
Digits == {"0","1","2","3","4","5","6","7","8","9"}
Letters ==
    {"a","b","c","d","e","f","g","h","i","j","k","l","m","n","o","p","q","r",
     "s","t","u","v","w","x","y","z","A","B","C","D","E","F","G","H","I","J",
     "K","L","M","N","O","P","Q","R","S","T","U","V","W","X","Y","Z"}
WordChars == Letters \cup Digits \cup {"_"}

(***************************************************************************)
(* Primitive string operations.                                            *)
(***************************************************************************)
Min(S) == CHOOSE x \in S : \A y \in S : x <= y
Max(S) == CHOOSE x \in S : \A y \in S : x >= y

\* the least element of I, or default when I is empty
MinOr(I, default) == IF I = {} THEN default ELSE Min(I)

\* s[i:] of Python, with 1-based i
Drop(s, i) == SubSeq(s, i, Len(s))

\* p occurs in s at index i
HasAt(s, p, i) ==
    /\ i >= 1
    /\ i + Len(p) - 1 <= Len(s)
    /\ \A k \in 1..Len(p) : s[i + k - 1] = p[k]

\* s.startswith(p)
StartsWith(s, p) == HasAt(s, p, 1)

\* p in s
Contains(s, p) == \E i \in 1..(Len(s) - Len(p) + 1) : HasAt(s, p, i)

\* index of the first occurrence of p in s at or after from; 0 when none
Find(s, p, from) ==
    MinOr({i \in from..(Len(s) - Len(p) + 1) : HasAt(s, p, i)}, 0)

\* first index at or after i whose character is not in class; Len(s) + 1
\* when there is none (a greedy class* starting at i ends there)
SkipClass(s, i, class) ==
    MinOr({j \in i..Len(s) : s[j] \notin class}, Len(s) + 1)

\* greedy \s*
SkipWs(s, i) == SkipClass(s, i, Whitespace)

\* s[lo..hi] for the non-whitespace indexes I of s
StripTo(s, I) == IF I = {} THEN <<>> ELSE SubSeq(s, Min(I), Max(I))

\* str.strip()
Strip(s) == StripTo(s, {j \in 1..Len(s) : s[j] \notin Whitespace})

RECURSIVE Concat(_)
\* "".join(list)
Concat(list) ==
    IF list = <<>> THEN <<>> ELSE Head(list) \o Concat(Tail(list))

(***************************************************************************)
(* ToolCallHandler.tool_call_pattern:                                      *)
(*  <tool_call>\s*<name>([^<]+)</name>\s*<arguments>(.*?)</arguments>      *)
(*  \s*</tool_call>   with re.DOTALL                                       *)
(* NoMatch is the failed match; a match gives the index of its first       *)
(* character, the index after its last character, and the two groups.      *)
(* The pattern is matched left to right; each operator below matches the   *)
(* rest of the pattern from the position the previous one reached.         *)
(***************************************************************************)
NoMatch == [ok |-> FALSE, start |-> 0, end |-> 0, name |-> <<>>, args |-> <<>>]

\* the lazy group (.*?) that starts at f ends at the first </arguments>
\* that is followed by \s*</tool_call>; 0 when there is none
ArgumentsEnd(s, f) ==
    MinOr({g \in f..(Len(s) - Len(ArgumentsClose) + 1) :
              /\ HasAt(s, ArgumentsClose, g)
              /\ HasAt(s, ToolCallClose, SkipWs(s, g + Len(ArgumentsClose)))},
          0)

\* (.*?)</arguments>\s*</tool_call> : the arguments are s[f..g-1]
MatchEnd(s, i, c, lt, f, g) ==
    IF g = 0 THEN NoMatch
    ELSE [ok    |-> TRUE,
          start |-> i,
          end   |-> SkipWs(s, g + Len(ArgumentsClose)) + Len(ToolCallClose),
          name  |-> SubSeq(s, c, lt - 1),
          args  |-> SubSeq(s, f, g - 1)]

\* <arguments> at e
MatchArguments(s, i, c, lt, e) ==
    IF ~HasAt(s, ArgumentsOpen, e) THEN NoMatch
    ELSE MatchEnd(s, i, c, lt, e + Len(ArgumentsOpen),
                  ArgumentsEnd(s, e + Len(ArgumentsOpen)))

\* ([^<]+)</name>\s* : the group is greedy and cannot cross "<", so the
\* name is the whole run s[c..lt-1] up to the next "<" at lt
MatchNameEnd(s, i, c, lt) ==
    IF lt = 0 \/ lt = c \/ ~HasAt(s, NameClose, lt) THEN NoMatch
    ELSE MatchArguments(s, i, c, lt, SkipWs(s, lt + Len(NameClose)))

\* <name> at b
MatchName(s, i, b) ==
    IF ~HasAt(s, NameOpen, b) THEN NoMatch
    ELSE MatchNameEnd(s, i, b + Len(NameOpen),
                      Find(s, <<"<">>, b + Len(NameOpen)))

\* the pattern matched with its first character at index i
MatchAt(s, i) ==
    IF ~HasAt(s, ToolCallOpen, i) THEN NoMatch
    ELSE MatchName(s, i, SkipWs(s, i + Len(ToolCallOpen)))

\* the match at the least index of I
FirstMatch(s, I) == IF I = {} THEN NoMatch ELSE MatchAt(s, Min(I))

\* the leftmost match starting at or after from
SearchFrom(s, from) ==
    FirstMatch(s, {i \in from..Len(s) : MatchAt(s, i).ok})

RECURSIVE FindIter(_, _)
RECURSIVE MatchesFrom(_, _)
\* tool_call_pattern.finditer(s): the non-overlapping matches, left to right
FindIter(s, from) == MatchesFrom(s, SearchFrom(s, from))

\* the match m and the matches after it
MatchesFrom(s, m) ==
    IF ~m.ok THEN <<>> ELSE <<m>> \o FindIter(s, m.end)

RECURSIVE RemoveMatches(_, _, _)
\* the text of s outside the matches ms, from index from on
RemoveMatches(s, ms, from) ==
    IF ms = <<>> THEN Drop(s, from)
    ELSE SubSeq(s, from, Head(ms).start - 1)
         \o RemoveMatches(s, Tail(ms), Head(ms).end)

\* tool_call_pattern.sub("", s)
SubToolCalls(s) == RemoveMatches(s, FindIter(s, 1), 1)

(***************************************************************************)
(* json.loads(text) of tool_handler.py lines 135 and 164: only whether it  *)
(* raises JSONDecodeError is used.  The recognizer follows the grammar of  *)
(* Python's json.decoder (strict mode): each scanner returns the index     *)
(* after the value it read, or 0 when the text is rejected there.          *)
(***************************************************************************)
JsonWhitespace == {" ", "\t", "\n", "\r"}
JsonEscapes == {"\"", "\\", "/", "b", "f", "n", "r", "t"}
HexDigits == Digits \cup {"a","b","c","d","e","f","A","B","C","D","E","F"}
ControlChars == {"\n", "\t", "\r", "\f"}

\* index after the whitespace at i; a rejection (0) is passed on
SkipJsonWs(s, i) == IF i = 0 THEN 0 ELSE SkipClass(s, i, JsonWhitespace)

\* index after the run of digits starting at i (i itself when there is none)
SkipDigits(s, i) == SkipClass(s, i, Digits)

\* s[i] exists and is the character c
CharAt(s, i, c) == i >= 1 /\ i <= Len(s) /\ s[i] = c

\* s[i] exists and is in class
ClassAt(s, i, class) == i >= 1 /\ i <= Len(s) /\ s[i] \in class

RECURSIVE JsonStringBody(_, _)
\* the characters of a string after its opening quote
JsonStringBody(s, j) ==
    IF j > Len(s) THEN 0
    ELSE IF s[j] = "\"" THEN j + 1
    ELSE IF s[j] \in ControlChars THEN 0
    ELSE IF s[j] = "\\" THEN
        IF ClassAt(s, j + 1, JsonEscapes) THEN JsonStringBody(s, j + 2)
        ELSE IF /\ CharAt(s, j + 1, "u")
                /\ \A k \in (j + 2)..(j + 5) : ClassAt(s, k, HexDigits)
             THEN JsonStringBody(s, j + 6)
        ELSE 0
    ELSE JsonStringBody(s, j + 1)

JsonString(s, i) ==
    IF CharAt(s, i, "\"") THEN JsonStringBody(s, i + 1) ELSE 0

\* NUMBER_RE: (-?(?:0|[1-9]\d*))(\.\d+)?([eE][-+]?\d+)?
\* the exponent, if any, of a number whose fraction ended before index i
JsonExponent(s, i) ==
    IF /\ ClassAt(s, i, {"e", "E"})
       /\ ClassAt(s, i + 1, {"+", "-"})
       /\ ClassAt(s, i + 2, Digits)
    THEN SkipDigits(s, i + 2)
    ELSE IF ClassAt(s, i, {"e", "E"}) /\ ClassAt(s, i + 1, Digits)
    THEN SkipDigits(s, i + 1)
    ELSE i

\* the fraction, if any, of a number whose integer part ended before i
JsonFraction(s, i) ==
    IF CharAt(s, i, ".") /\ ClassAt(s, i + 1, Digits)
    THEN JsonExponent(s, SkipDigits(s, i + 1))
    ELSE JsonExponent(s, i)

\* the digits of a number, after its sign
JsonDigits(s, d) ==
    IF ~ClassAt(s, d, Digits) THEN 0
    ELSE IF s[d] = "0" THEN JsonFraction(s, d + 1)
    ELSE JsonFraction(s, SkipDigits(s, d))

JsonNumber(s, i) ==
    IF CharAt(s, i, "-") THEN JsonDigits(s, i + 1) ELSE JsonDigits(s, i)

JsonLiterals ==
    { <<"n","u","l","l">>, <<"t","r","u","e">>, <<"f","a","l","s","e">>,
      <<"N","a","N">>, <<"I","n","f","i","n","i","t","y">>,
      <<"-","I","n","f","i","n","i","t","y">> }

\* index after the literal at i; 0 when there is none
JsonLiteral(s, i) ==
    MinOr({i + Len(l) : l \in {m \in JsonLiterals : HasAt(s, m, i)}}, 0)

RECURSIVE JsonValue(_, _)
RECURSIVE JsonMembers(_, _)
RECURSIVE JsonMemberValue(_, _)
RECURSIVE JsonMemberEnd(_, _)
RECURSIVE JsonElements(_, _)
RECURSIVE JsonElementEnd(_, _)

\* after a member's value, which ended before index n (0: it was rejected)
JsonMemberEnd(s, n) ==
    IF n = 0 \/ n > Len(s) THEN 0
    ELSE IF s[n] = "}" THEN n + 1
    ELSE IF s[n] = "," THEN JsonMembers(s, SkipJsonWs(s, n + 1))
    ELSE 0

\* after a member's key, which ended before index c (0: it was rejected)
JsonMemberValue(s, c) ==
    IF c = 0 \/ ~CharAt(s, c, ":") THEN 0
    ELSE JsonMemberEnd(s, SkipJsonWs(s, JsonValue(s, SkipJsonWs(s, c + 1))))

\* "key" : value ( , "key" : value )* }    scanned from the key's quote
JsonMembers(s, i) ==
    JsonMemberValue(s, SkipJsonWs(s, JsonString(s, i)))

\* after an element, which ended before index n (0: it was rejected)
JsonElementEnd(s, n) ==
    IF n = 0 \/ n > Len(s) THEN 0
    ELSE IF s[n] = "]" THEN n + 1
    ELSE IF s[n] = "," THEN JsonElements(s, SkipJsonWs(s, n + 1))
    ELSE 0

\* value ( , value )* ]
JsonElements(s, i) == JsonElementEnd(s, SkipJsonWs(s, JsonValue(s, i)))

JsonValue(s, i) ==
    IF i > Len(s) THEN 0
    ELSE IF s[i] = "\"" THEN JsonString(s, i)
    ELSE IF s[i] = "{" THEN
        IF CharAt(s, SkipJsonWs(s, i + 1), "}")
        THEN SkipJsonWs(s, i + 1) + 1
        ELSE JsonMembers(s, SkipJsonWs(s, i + 1))
    ELSE IF s[i] = "[" THEN
        IF CharAt(s, SkipJsonWs(s, i + 1), "]")
        THEN SkipJsonWs(s, i + 1) + 1
        ELSE JsonElements(s, SkipJsonWs(s, i + 1))
    ELSE IF JsonLiteral(s, i) # 0 THEN JsonLiteral(s, i)
    ELSE JsonNumber(s, i)

\* the text ends, up to whitespace, where the value ended (before index v)
JsonEndsAt(s, v) == v # 0 /\ SkipJsonWs(s, v) = Len(s) + 1

\* json.loads(s) does not raise
JsonLoads(s) == JsonEndsAt(s, JsonValue(s, SkipJsonWs(s, 1)))

(***************************************************************************)
(* ToolCallHandler._fix_json_arguments                                     *)
(***************************************************************************)
\* index after the run of \w characters starting at i
SkipWord(s, i) == SkipClass(s, i, WordChars)

RECURSIVE QuoteKeysFrom(_, _)
RECURSIVE QuoteRun(_, _, _)
\* the run of word characters s[i..e-1]: put in quotes if a colon follows
QuoteRun(s, i, e) ==
    IF CharAt(s, e, ":")
    THEN <<"\"">> \o SubSeq(s, i, e - 1) \o <<"\"", ":">>
         \o QuoteKeysFrom(s, e + 1)
    ELSE SubSeq(s, i, e - 1) \o QuoteKeysFrom(s, e)

\* re.sub(r"(\w+):", r'"\1":', s) from index i on: every run of word
\* characters that is directly followed by a colon is put in quotes
QuoteKeysFrom(s, i) ==
    IF i > Len(s) THEN <<>>
    ELSE IF s[i] \notin WordChars THEN <<s[i]>> \o QuoteKeysFrom(s, i + 1)
    ELSE QuoteRun(s, i, SkipWord(s, i))

\* the escape json.dumps writes for one character of a str
JsonEscapeChar(c) ==
    CASE c = "\"" -> <<"\\", "\"">>
      [] c = "\\" -> <<"\\", "\\">>
      [] c = "\n" -> <<"\\", "n">>
      [] c = "\r" -> <<"\\", "r">>
      [] c = "\t" -> <<"\\", "t">>
      [] c = "\f" -> <<"\\", "f">>
      [] OTHER    -> <<c>>

RECURSIVE JsonEscape(_)
JsonEscape(s) ==
    IF s = <<>> THEN <<>> ELSE JsonEscapeChar(Head(s)) \o JsonEscape(Tail(s))

\* json.dumps(s) for a str s
JsonDumps(s) == <<"\"">> \o JsonEscape(s) \o <<"\"">>

\* lines 163-168: keep the repair if it parses, else wrap the original
FixedOrWrapped(arguments_str, fixed) ==
    IF JsonLoads(fixed) THEN fixed ELSE JsonDumps(arguments_str)

\* _fix_json_arguments(arguments_str)
FixJsonArguments(arguments_str) ==
    FixedOrWrapped(arguments_str, QuoteKeysFrom(arguments_str, 1))

(***************************************************************************)
(* ToolCallHandler.parse_tool_calls                                        *)
(***************************************************************************)
RECURSIVE RemoveThinking(_, _)
\* the next marker at or after i starts at m (0: there is none); the match
\* starts at the "*" before it, if there is one at or after i
RemoveThinkingAt(s, i, m) ==
    IF m = 0 THEN Drop(s, i)
    ELSE SubSeq(s, i, IF m > i /\ s[m - 1] = "*" THEN m - 2 ELSE m - 1)
         \o IF CharAt(s, m + Len(ThinkingMarker), "*")
            THEN RemoveThinking(s, SkipWs(s, m + Len(ThinkingMarker) + 1))
            ELSE RemoveThinking(s, SkipWs(s, m + Len(ThinkingMarker)))

\* re.sub(r"\*?Thinking\.\.\..*?\*?\s*", "", s, flags=re.DOTALL) from i on:
\* the lazy .*? matches nothing, so a match is an optional "*", the marker,
\* an optional "*" and the whitespace after it
RemoveThinking(s, i) == RemoveThinkingAt(s, i, Find(s, ThinkingMarker, i))

RECURSIVE CollapseWhitespace(_, _)
\* the next run of two or more whitespace characters at or after i starts
\* at r (0: there is none)
CollapseAt(s, i, r) ==
    IF r = 0 THEN Drop(s, i)
    ELSE SubSeq(s, i, r - 1) \o <<" ">>
         \o CollapseWhitespace(s, SkipWs(s, r))

\* re.sub(r"\s{2,}", " ", s) from index i on
CollapseWhitespace(s, i) ==
    CollapseAt(s, i, MinOr({j \in i..(Len(s) - 1) :
                               s[j] \in Whitespace /\ s[j + 1] \in Whitespace},
                          0))

\* lines 148-154: the cleaned content when there is at least one match
CleanContent(content) ==
    Strip(CollapseWhitespace(
              RemoveThinking(Strip(SubToolCalls(content)), 1), 1))

\* lines 133-138: the arguments string of one call
ValidateArguments(arguments_str) ==
    IF JsonLoads(arguments_str) THEN arguments_str
    ELSE FixJsonArguments(arguments_str)

\* line 131: call_id = f"call_{uuid.uuid4().hex[:24]}".  uuid4 is taken to
\* return a value it never returned before: the n-th value drawn by the
\* process is modelled as the number n.
CallId(n) == <<"uuid", n>>

\* mutation of BuildToolCall: every call of one parse gets the same id
BuildToolCallSameId(match, k, drawn) ==
    [id        |-> CallId(drawn),
     name      |-> Strip(match.name),
     arguments |-> ValidateArguments(Strip(match.args))]

\* lines 126-146: the ToolCall built for the k-th match, when `drawn' uuids
\* were drawn before the call of parse_tool_calls
BuildToolCall(match, k, drawn) ==
    [id        |-> CallId(drawn + k),
     name      |-> Strip(match.name),
     arguments |-> ValidateArguments(Strip(match.args))]

\* lines 123-156, given the matches of line 121
ParseMatches(content, matches, drawn) ==
    IF content = <<>> \/ matches = <<>>
    THEN [cleaned |-> content, calls |-> <<>>]
    ELSE [cleaned |-> CleanContent(content),
          calls   |-> [k \in 1..Len(matches) |->
                          BuildToolCall(matches[k], k, drawn)]]

\* parse_tool_calls(content): (cleaned_content, tool_calls)
ParseToolCalls(content, drawn) ==
    ParseMatches(content, FindIter(content, 1), drawn)

(***************************************************************************)
(* ToolCallHandler.extract_tool_calls_from_stream                          *)
(***************************************************************************)
\* mutation of ExtractFromCombined: the blocks reported stay in the buffer
ExtractFromCombinedKeeping(chunk_content, combined, drawn) ==
    IF Contains(combined, ToolCallOpen)
    THEN IF Contains(combined, ToolCallClose)
         THEN [filtered   |-> <<>>,
               tool_calls |-> ParseToolCalls(combined, drawn).calls,
               buffer     |-> Strip(combined)]
         ELSE [filtered   |-> <<>>,
               tool_calls |-> <<>>,
               buffer     |-> combined]
    ELSE [filtered   |-> chunk_content,
          tool_calls |-> <<>>,
          buffer     |-> <<>>]

\* mutation of ExtractFromCombined: an open call restarts the buffer at the
\* fragment
ExtractFromCombinedRestarting(chunk_content, combined, drawn) ==
    IF Contains(combined, ToolCallOpen)
    THEN IF Contains(combined, ToolCallClose)
         THEN [filtered   |-> <<>>,
               tool_calls |-> ParseToolCalls(combined, drawn).calls,
               buffer     |-> Strip(SubToolCalls(combined))]
         ELSE [filtered   |-> <<>>,
               tool_calls |-> <<>>,
               buffer     |-> chunk_content]
    ELSE [filtered   |-> chunk_content,
          tool_calls |-> <<>>,
          buffer     |-> <<>>]

\* lines 182-208, given combined = buffer + chunk_content
ExtractFromCombined(chunk_content, combined, drawn) ==
    IF Contains(combined, ToolCallOpen)
    THEN IF Contains(combined, ToolCallClose)
         THEN [filtered   |-> <<>>,
               tool_calls |-> ParseToolCalls(combined, drawn).calls,
               buffer     |-> Strip(SubToolCalls(combined))]
         ELSE [filtered   |-> <<>>,
               tool_calls |-> <<>>,
               buffer     |-> combined]
    ELSE [filtered   |-> chunk_content,
          tool_calls |-> <<>>,
          buffer     |-> <<>>]

\* (filtered_content, tool_calls, updated_buffer)
ExtractToolCallsFromStream(chunk_content, buffer, drawn) ==
    ExtractFromCombined(chunk_content, buffer \o chunk_content, drawn)

(***************************************************************************)
(* Backend events (fastapi_poe PartialResponse objects) as the translator  *)
(* reads them: the attributes error_type, text, attachment and data, and   *)
(* whether the object is a MetaResponse.  An absent or empty attribute is  *)
(* the empty sequence.                                                     *)
(***************************************************************************)
NoData == [present |-> FALSE, malformed |-> FALSE, tool_calls |-> <<>>]

Partial(text) ==
    [error_type |-> <<>>, meta |-> FALSE, attachment |-> <<>>,
     text |-> text, data |-> NoData]

ErrorResponse(error_type, text) ==
    [error_type |-> error_type, meta |-> FALSE, attachment |-> <<>>,
     text |-> text, data |-> NoData]

MetaResponse ==
    [error_type |-> <<>>, meta |-> TRUE, attachment |-> <<>>,
     text |-> <<>>, data |-> NoData]

AttachmentResponse(url) ==
    [error_type |-> <<>>, meta |-> FALSE, attachment |-> url,
     text |-> <<>>, data |-> NoData]

\* a partial whose data dict holds 'tool_calls'; an entry with hasId FALSE
\* has no 'id' key; malformed: an entry lacks 'function'
NativeToolResponse(text, tool_calls, malformed) ==
    [error_type |-> <<>>, meta |-> FALSE, attachment |-> <<>>,
     text |-> text,
     data |-> [present |-> TRUE, malformed |-> malformed,
               tool_calls |-> tool_calls]]

(***************************************************************************)
(* Items written to the event stream.                                      *)
(***************************************************************************)
NoCall == [index |-> <<>>, id |-> <<>>, name |-> <<>>, arguments |-> <<>>]
NoError == [message |-> <<>>, type |-> <<>>]

\* "data: [DONE]\n\n"
Done ==
    [item |-> "done", delta |-> "none", content |-> <<>>, call |-> NoCall,
     finish_reason |-> "null", error |-> NoError]

\* api.py 349-356: {"error": {"message", "type", "code": None}}
ErrorChunk(message, type) ==
    [item |-> "error", delta |-> "none", content |-> <<>>, call |-> NoCall,
     finish_reason |-> "null", error |-> [message |-> message, type |-> type]]

\* ChatCompletionStreamResponse with delta {"content": content}
ContentChunk(content) ==
    [item |-> "chunk", delta |-> "content", content |-> content,
     call |-> NoCall, finish_reason |-> "null", error |-> NoError]

\* ChatCompletionStreamResponse with delta {"tool_calls": [call]}
ToolCallChunk(call) ==
    [item |-> "chunk", delta |-> "tool_calls", content |-> <<>>,
     call |-> call, finish_reason |-> "null", error |-> NoError]

\* ChatCompletionStreamResponse with delta {} and a finish_reason
FinishChunk(finish_reason) ==
    [item |-> "chunk", delta |-> "empty", content |-> <<>>, call |-> NoCall,
     finish_reason |-> finish_reason, error |-> NoError]

(***************************************************************************)
(* NativeToolHandler.extract_tool_calls_from_message                       *)
(***************************************************************************)
\* the id of the k-th entry (1-based): tc.get('id', f"call_{len(tool_calls)}")
NativeCallId(tc, k) == IF tc.hasId THEN <<"backend", tc.id>> ELSE <<"call", k - 1>>

\* None is the empty list; raised: tc['function'] raises KeyError
ExtractToolCallsFromMessage(message) ==
    IF ~message.data.present THEN [raised |-> FALSE, calls |-> <<>>]
    ELSE IF message.data.malformed THEN [raised |-> TRUE, calls |-> <<>>]
    ELSE [raised |-> FALSE,
          calls  |-> [k \in 1..Len(message.data.tool_calls) |->
                        [index     |-> <<>>,
                         id        |-> NativeCallId(message.data.tool_calls[k], k),
                         name      |-> message.data.tool_calls[k].name,
                         arguments |-> message.data.tool_calls[k].arguments]]]

(***************************************************************************)
(* APIHandler._handle_tool_streaming                                       *)
(* Result: the chunks yielded, the new tool_state, the number of uuids     *)
(* drawn so far, and whether an exception ended the generator.             *)
(***************************************************************************)
ToolCallChunks(calls) == [k \in 1..Len(calls) |-> ToolCallChunk(calls[k])]

\* tool_handler.py 190-196: the dict built for a parsed call
StreamCall(call) ==
    [index |-> <<0>>, id |-> call.id, name |-> call.name,
     arguments |-> call.arguments]

\* api.py 498-512
TextChunks(text) == IF text # <<>> THEN <<ContentChunk(text)>> ELSE <<>>

\* api.py 480-512, given the result of extract_tool_calls_from_message
NativeResult(partial, tool_state, drawn, native) ==
    IF native.raised
    THEN [chunks |-> <<>>, tool_state |-> tool_state, drawn |-> drawn,
          raised |-> TRUE]
    ELSE IF native.calls # <<>>
    THEN [chunks     |-> ToolCallChunks(native.calls),
          tool_state |-> [tool_state EXCEPT !.finish_reason = "tool_calls"],
          drawn      |-> drawn,
          raised     |-> FALSE]
    ELSE [chunks     |-> TextChunks(partial.text),
          tool_state |-> tool_state,
          drawn      |-> drawn,
          raised     |-> FALSE]

\* api.py 475-512
NativeToolStreaming(partial, tool_state, drawn) ==
    NativeResult(partial, tool_state, drawn,
                 ExtractToolCallsFromMessage(partial))

\* mutation of XmlResult: a fragment without a call sets finish_reason back
XmlResultResetting(tool_state, drawn, r) ==
    [chunks     |-> ToolCallChunks([k \in 1..Len(r.tool_calls) |->
                                       StreamCall(r.tool_calls[k])])
                    \o TextChunks(r.filtered),
     tool_state |-> [buffer        |-> r.buffer,
                     finish_reason |-> IF r.tool_calls # <<>>
                                       THEN "tool_calls"
                                       ELSE "stop"],
     drawn      |-> drawn + Len(r.tool_calls),
     raised     |-> FALSE]

\* api.py 520-552, given the result r of extract_tool_calls_from_stream
XmlResult(tool_state, drawn, r) ==
    [chunks     |-> ToolCallChunks([k \in 1..Len(r.tool_calls) |->
                                       StreamCall(r.tool_calls[k])])
                    \o TextChunks(r.filtered),
     tool_state |-> [buffer        |-> r.buffer,
                     finish_reason |-> IF r.tool_calls # <<>>
                                       THEN "tool_calls"
                                       ELSE tool_state.finish_reason],
     drawn      |-> drawn + Len(r.tool_calls),
     raised     |-> FALSE]

\* api.py 513-552
XmlToolStreaming(partial, tool_state, drawn) ==
    XmlResult(tool_state, drawn,
              ExtractToolCallsFromStream(partial.text, tool_state.buffer,
                                         drawn))

HandleToolStreaming(partial, tool_state, use_native_tools, drawn) ==
    IF use_native_tools
    THEN NativeToolStreaming(partial, tool_state, drawn)
    ELSE XmlToolStreaming(partial, tool_state, drawn)

\* mutation of HandleThinkingPattern: the started chunk is sent for every
\* marker fragment
HandleThinkingPatternRepeating(thinking_state) ==
    [chunks         |-> <<ContentChunk(ThinkingStarted)>>,
     thinking_state |-> [thinking_state EXCEPT !.started = TRUE]]

(***************************************************************************)
(* APIHandler._handle_thinking_pattern                                     *)
(***************************************************************************)
HandleThinkingPattern(thinking_state) ==
    IF ~thinking_state.started
    THEN [chunks         |-> <<ContentChunk(ThinkingStarted)>>,
          thinking_state |-> [thinking_state EXCEPT !.started = TRUE]]
    ELSE [chunks |-> <<>>, thinking_state |-> thinking_state]

(***************************************************************************)
(* APIHandler._handle_streaming_partial                                    *)
(* st is the request's stream state: accumulated_content (the list),       *)
(* thinking_state, tool_state, and drawn.  The result is the chunks the    *)
(* generator yields for this partial, in order, the state it leaves, and   *)
(* whether an exception ended it.                                          *)
(***************************************************************************)
\* mutation of Unchanged: the text of the partial, if empty, is accumulated
UnchangedAccumulating(st, chunks) ==
    [chunks |-> chunks,
     st     |-> [st EXCEPT !.accumulated_content = Append(@, <<>>)],
     raised |-> FALSE]

Unchanged(st, chunks) ==
    [chunks |-> chunks, st |-> st, raised |-> FALSE]

\* api.py 394-396
IsThinkingFragment(text, accumulated_content) ==
    /\ Contains(text, ThinkingMarker)
    /\ ~StartsWith(Concat(accumulated_content), ThinkingStarted)

\* mutation of ThinkingResult: the marker fragment is forwarded as well
ThinkingResultForwarding(st, acc, th) ==
    [chunks |-> th.chunks \o <<ContentChunk(acc[Len(acc)])>>,
     st     |-> [st EXCEPT !.accumulated_content = acc,
                           !.thinking_state = th.thinking_state],
     raised |-> FALSE]

\* api.py 397-401, given the result th of _handle_thinking_pattern
ThinkingResult(st, acc, th) ==
    [chunks |-> th.chunks,
     st     |-> [st EXCEPT !.accumulated_content = acc,
                           !.thinking_state = th.thinking_state],
     raised |-> FALSE]

\* mutation of ThinkingFinished: finishing takes the sub-state back
ThinkingFinishedResetting(thinking_state) ==
    IF thinking_state.started /\ ~thinking_state.finished
    THEN [chunks         |-> <<ContentChunk(Separator)>>,
          thinking_state |-> [started |-> FALSE, finished |-> TRUE]]
    ELSE [chunks |-> <<>>, thinking_state |-> thinking_state]

\* mutation of ThinkingFinished: thinking is never marked finished
ThinkingFinishedRepeating(thinking_state) ==
    IF thinking_state.started /\ ~thinking_state.finished
    THEN [chunks         |-> <<ContentChunk(Separator)>>,
          thinking_state |-> thinking_state]
    ELSE [chunks |-> <<>>, thinking_state |-> thinking_state]

\* api.py 403-418: the separator chunk, if thinking just finished
ThinkingFinished(thinking_state) ==
    IF thinking_state.started /\ ~thinking_state.finished
    THEN [chunks         |-> <<ContentChunk(Separator)>>,
          thinking_state |-> [thinking_state EXCEPT !.finished = TRUE]]
    ELSE [chunks |-> <<>>, thinking_state |-> thinking_state]

\* api.py 421-429, given the separator step fin and the tool step t
ToolResult(acc, fin, t) ==
    [chunks |-> fin.chunks \o t.chunks,
     st     |-> [accumulated_content |-> acc,
                 thinking_state      |-> fin.thinking_state,
                 tool_state          |-> t.tool_state,
                 drawn               |-> t.drawn],
     raised |-> t.raised]

\* mutation of PlainResult: the whole accumulated text is sent again
PlainResultAccumulated(partial, st, acc, fin) ==
    [chunks |-> fin.chunks \o <<ContentChunk(Concat(acc))>>,
     st     |-> [st EXCEPT !.accumulated_content = acc,
                           !.thinking_state = fin.thinking_state],
     raised |-> FALSE]

\* api.py 430-444, given the separator step fin
PlainResult(partial, st, acc, fin) ==
    [chunks |-> fin.chunks \o <<ContentChunk(partial.text)>>,
     st     |-> [st EXCEPT !.accumulated_content = acc,
                           !.thinking_state = fin.thinking_state],
     raised |-> FALSE]

\* api.py 393-444, given accumulated_content after line 391
HandleAccumulated(partial, st, acc, request_tools, use_native_tools) ==
    IF IsThinkingFragment(partial.text, acc)
    THEN ThinkingResult(st, acc, HandleThinkingPattern(st.thinking_state))
    ELSE IF request_tools
    THEN ToolResult(acc, ThinkingFinished(st.thinking_state),
                    HandleToolStreaming(partial, st.tool_state,
                                        use_native_tools, st.drawn))
    ELSE PlainResult(partial, st, acc, ThinkingFinished(st.thinking_state))

\* api.py 391-444: a partial with text
HandleText(partial, st, request_tools, use_native_tools) ==
    HandleAccumulated(partial, st,
                      Append(st.accumulated_content, partial.text),
                      request_tools, use_native_tools)

\* api.py 370
AttachmentText(url) == ImagePrefix \o url \o ImageSuffix

\* mutation of HandleAttachment: the attachment ends the thinking phase like
\* a text fragment does
HandleAttachmentFinishing(st, attachment_text) ==
    [chunks |-> ThinkingFinished(st.thinking_state).chunks
                \o <<ContentChunk(attachment_text)>>,
     st     |-> [st EXCEPT !.accumulated_content = Append(@, attachment_text),
                           !.thinking_state =
                               ThinkingFinished(st.thinking_state).thinking_state],
     raised |-> FALSE]

\* api.py 368-386
HandleAttachment(st, attachment_text) ==
    [chunks |-> <<ContentChunk(attachment_text)>>,
     st     |-> [st EXCEPT !.accumulated_content = Append(@, attachment_text)],
     raised |-> FALSE]

HandleStreamingPartial(partial, st, request_tools, use_native_tools) ==
    IF partial.error_type # <<>>
    THEN Unchanged(st, <<ErrorChunk(partial.text, partial.error_type), Done>>)
    ELSE IF partial.meta
    THEN Unchanged(st, <<>>)
    ELSE IF partial.attachment # <<>>
    THEN HandleAttachment(st, AttachmentText(partial.attachment))
    ELSE IF partial.text = <<>>
    THEN Unchanged(st, <<>>)
    ELSE HandleText(partial, st, request_tools, use_native_tools)

(***************************************************************************)
(* PoeClient.remove_thinking_noise (poe_client.py 96-113)                  *)
(***************************************************************************)
\* (?<!^\*)\bThinking\.\.\. matches s at index i: the marker, not after the
\* "*" that opens the string, and not after a word character
NoiseAt(s, i) ==
    /\ HasAt(s, ThinkingMarker, i)
    /\ ~(i = 2 /\ s[1] = "*")
    /\ (i = 1 \/ s[i - 1] \notin WordChars)

SecondsElapsed ==
    <<"s"," ","e","l","a","p","s","e","d",")">>

\* index after \([0-9]+s elapsed\) matched at index i of s; 0 when it does
\* not match there
ElapsedEnd(s, i) ==
    IF /\ CharAt(s, i, "(")
       /\ SkipDigits(s, i + 1) > i + 1
       /\ HasAt(s, SecondsElapsed, SkipDigits(s, i + 1))
    THEN SkipDigits(s, i + 1) + Len(SecondsElapsed)
    ELSE 0

\* index after (?:\s*\([0-9]+s elapsed\))?\s* matched at index j of s
NoiseEnd(s, j) ==
    IF ElapsedEnd(s, SkipWs(s, j)) # 0
    THEN SkipWs(s, ElapsedEnd(s, SkipWs(s, j)))
    ELSE SkipWs(s, j)

RECURSIVE RemoveNoise(_, _)
\* re.sub of the marker pattern by "", from index i of s on
RemoveNoise(s, i) ==
    IF i > Len(s) THEN <<>>
    ELSE IF NoiseAt(s, i)
    THEN RemoveNoise(s, NoiseEnd(s, i + Len(ThinkingMarker)))
    ELSE <<s[i]>> \o RemoveNoise(s, i + 1)

RECURSIVE ReplaceRuns(_, _, _, _, _)
\* re.sub(class{n,}, by, s), from index i of s on
ReplaceRuns(s, i, class, n, by) ==
    IF i > Len(s) THEN <<>>
    ELSE IF SkipClass(s, i, class) - i >= n
    THEN by \o ReplaceRuns(s, SkipClass(s, i, class), class, n, by)
    ELSE <<s[i]>> \o ReplaceRuns(s, i + 1, class, n, by)

\* poe_client.py 102-108: the three substitutions and strip()
CleanResponse(raw_response) ==
    Strip(ReplaceRuns(ReplaceRuns(RemoveNoise(raw_response, 1),
                                  1, Whitespace, 3, <<" ">>),
                      1, {"\n"}, 3, Separator))

\* poe_client.py 113
ThinkingFiller ==
    <<"I","'","m"," ","t","h","i","n","k","i","n","g"," ","a","b","o","u",
      "t"," ","y","o","u","r"," ","r","e","q","u","e","s","t",".">>

remove_thinking_noise(raw_response) ==
    IF raw_response = <<>> \/ ~Contains(raw_response, ThinkingMarker)
    THEN raw_response
    ELSE IF CleanResponse(raw_response) # <<>>
    THEN ThinkingStarted \o Separator \o CleanResponse(raw_response)
    ELSE ThinkingStarted \o Separator \o ThinkingFiller

(***************************************************************************)
(* PoeClient.estimate_reasoning_tokens (poe_client.py 63-94)               *)
(***************************************************************************)
tokens_per_second == 75
tokens_per_thinking_occurrence == 40
chars_per_token == 4

UpperCase ==
    <<"A","B","C","D","E","F","G","H","I","J","K","L","M","N","O","P","Q",
      "R","S","T","U","V","W","X","Y","Z">>
LowerCase ==
    <<"a","b","c","d","e","f","g","h","i","j","k","l","m","n","o","p","q",
      "r","s","t","u","v","w","x","y","z">>

\* re.IGNORECASE: a letter stands for both of its cases
Fold(c) ==
    IF \E k \in 1..Len(UpperCase) : UpperCase[k] = c
    THEN LowerCase[CHOOSE k \in 1..Len(UpperCase) : UpperCase[k] = c]
    ELSE c

\* p occurs in s at index i, case ignored
HasAtFold(s, p, i) ==
    /\ i >= 1
    /\ i + Len(p) - 1 <= Len(s)
    /\ \A k \in 1..Len(p) : Fold(s[i + k - 1]) = Fold(p[k])

\* index after the one of words that s holds at index i; 0 when none
WordEnd(s, i, words) ==
    IF \E w \in words : HasAtFold(s, w, i)
    THEN i + Len(CHOOSE w \in words : HasAtFold(s, w, i))
    ELSE 0

\* <(?:thinking|think|reasoning)>
OpenTags ==
    { <<"<","t","h","i","n","k","i","n","g",">">>,
      <<"<","t","h","i","n","k",">">>,
      <<"<","r","e","a","s","o","n","i","n","g",">">> }

\* </(?:thinking|think|reasoning)>
CloseTags ==
    { <<"<","/","t","h","i","n","k","i","n","g",">">>,
      <<"<","/","t","h","i","n","k",">">>,
      <<"<","/","r","e","a","s","o","n","i","n","g",">">> }

\* (?:Let me (?:think|analyze)|I need to consider|My reasoning|Step-by-step)
ReasoningPhrases ==
    { <<"L","e","t"," ","m","e"," ","t","h","i","n","k">>,
      <<"L","e","t"," ","m","e"," ","a","n","a","l","y","z","e">>,
      <<"I"," ","n","e","e","d"," ","t","o"," ","c","o","n","s","i","d","e","r">>,
      <<"M","y"," ","r","e","a","s","o","n","i","n","g">>,
      <<"S","t","e","p","-","b","y","-","s","t","e","p">> }

NoFind == [found |-> FALSE, group |-> <<>>, end |-> 0]

\* what findall keeps of a match of s[i..end-1]: s[from..to-1]
Match(s, from, to, end) ==
    [found |-> TRUE, group |-> SubSeq(s, from, to - 1), end |-> end]

\* $ without re.MULTILINE: the end of s, or before its last line feed
AtEnd(s, p) == p = Len(s) + 1 \/ (p = Len(s) /\ s[p] = "\n")

\* first pattern at index i: (.*?) runs to the first closing tag
TagMatchFrom(s, e) ==
    IF e = 0 \/ \A p \in e..Len(s) : WordEnd(s, p, CloseTags) = 0
    THEN NoFind
    ELSE Match(s, e, Min({p \in e..Len(s) : WordEnd(s, p, CloseTags) # 0}),
               WordEnd(s, Min({p \in e..Len(s) :
                                  WordEnd(s, p, CloseTags) # 0}), CloseTags))

TagMatch(s, i) == TagMatchFrom(s, WordEnd(s, i, OpenTags))

\* (?=\n\n[^>]|$) at index p
QuoteStops(s, p) ==
    \/ HasAt(s, Separator, p) /\ p + 2 <= Len(s) /\ s[p + 2] # ">"
    \/ AtEnd(s, p)

\* second pattern at index i: \*Thinking\.\.\.\*\s*\n\n> with the ">" at
\* index e, then (.*?) to the first place where the lookahead holds
QuoteMatchFrom(s, j, e) ==
    IF /\ e <= Len(s)
       /\ s[e] = ">"
       /\ e - 2 >= j
       /\ s[e - 1] = "\n"
       /\ s[e - 2] = "\n"
    THEN Match(s, e + 1,
               Min({p \in (e + 1)..(Len(s) + 1) : QuoteStops(s, p)}),
               Min({p \in (e + 1)..(Len(s) + 1) : QuoteStops(s, p)}))
    ELSE NoFind

QuoteMatch(s, i) ==
    IF HasAtFold(s, ThinkingStarted, i)
    THEN QuoteMatchFrom(s, i + Len(ThinkingStarted),
                        SkipWs(s, i + Len(ThinkingStarted)))
    ELSE NoFind

\* (?=\n\n|$) at index p
PhraseStops(s, p) == HasAt(s, Separator, p) \/ AtEnd(s, p)

\* third pattern at index i; it has no group, so findall keeps the match
PhraseMatchFrom(s, i, e) ==
    IF e = 0 THEN NoFind
    ELSE Match(s, i,
               Min({p \in e..(Len(s) + 1) : PhraseStops(s, p)}),
               Min({p \in e..(Len(s) + 1) : PhraseStops(s, p)}))

PhraseMatch(s, i) == PhraseMatchFrom(s, i, WordEnd(s, i, ReasoningPhrases))

\* reasoning_patterns[k] at index i of s
PatternMatch(k, s, i) ==
    CASE k = 1 -> TagMatch(s, i)
      [] k = 2 -> QuoteMatch(s, i)
      [] k = 3 -> PhraseMatch(s, i)

RECURSIVE FindAll(_, _, _)
\* re.findall(reasoning_patterns[k], s) from index i on
FindAll(k, s, i) ==
    IF i > Len(s) THEN <<>>
    ELSE IF PatternMatch(k, s, i).found
    THEN <<PatternMatch(k, s, i).group>>
         \o FindAll(k, s, Max({PatternMatch(k, s, i).end, i + 1}))
    ELSE FindAll(k, s, i + 1)

RECURSIVE Join(_)
\* " ".join(matches)
Join(matches) ==
    IF matches = <<>> THEN <<>>
    ELSE IF Len(matches) = 1 THEN Head(matches)
    ELSE Head(matches) \o <<" ">> \o Join(Tail(matches))

\* poe_client.py 79-82
ReasoningContent(text) ==
    Join(FindAll(1, text, 1)) \o Join(FindAll(2, text, 1))
    \o Join(FindAll(3, text, 1))

RECURSIVE Count(_, _, _)
\* s.count(p) from index i on
Count(s, p, i) ==
    IF Find(s, p, i) = 0 THEN 0
    ELSE 1 + Count(s, p, Find(s, p, i) + Len(p))

DigitSeq ==
    <<"0","1","2","3","4","5","6","7","8","9">>

RECURSIVE IntOf(_)
\* int(ds) of a string of digits
IntOf(ds) ==
    IF ds = <<>> THEN 0
    ELSE 10 * IntOf(SubSeq(ds, 1, Len(ds) - 1))
         + (CHOOSE d \in 0..9 : DigitSeq[d + 1] = ds[Len(ds)])

\* re.findall(r"\((\d+)s elapsed\)", text) as integers
TimeMatches(text) ==
    {IntOf(SubSeq(text, i + 1, SkipDigits(text, i + 1) - 1)) :
        i \in {j \in 1..Len(text) : ElapsedEnd(text, j) # 0}}

\* mutation of estimate_reasoning_tokens: no elapsed-time rule
estimate_reasoning_tokensCounting(text) ==
    (Len(ReasoningContent(text))
     + Count(text, ThinkingMarker, 1) * tokens_per_thinking_occurrence)
    \div chars_per_token

estimate_reasoning_tokens(text) ==
    IF text = <<>> THEN 0
    ELSE IF Count(text, ThinkingMarker, 1) > 0 /\ TimeMatches(text) # {}
    THEN Max(TimeMatches(text)) * tokens_per_second
    ELSE IF Count(text, ThinkingMarker, 1) > 0
    THEN (Len(ReasoningContent(text))
          + Count(text, ThinkingMarker, 1) * tokens_per_thinking_occurrence)
         \div chars_per_token
    ELSE Len(ReasoningContent(text)) \div chars_per_token

(***************************************************************************)
(* State.                                                                  *)
(* One streaming request (APIHandler.create_streaming_response), and one   *)
(* call of ToolCallHandler.parse_tool_calls on a complete response text.   *)
(***************************************************************************)
VARIABLES
    request_tools,        \* request.tools is non-empty
    use_native_tools,     \* should_use_native_tools(poe_model_name, tools)
    events,               \* what the backend stream will deliver, in order
    pos,                  \* index of the next backend event
    pc,                   \* position of stream_generator: "start",
                          \* "stream" (in the loop of line 596),
                          \* "done" (returned after line 636),
                          \* "poe_error" (returned after line 654),
                          \* "raised" (StreamingError raised at line 659),
                          \* "cancelled" (ended by the cancellation)
    accumulated_content,  \* list of text pieces received so far
    thinking_state,       \* [started, finished]
    tool_state,           \* [buffer, finish_reason]
    drawn,                \* number of uuid4 values drawn so far
    out,                  \* the items yielded to the client, in order
    cause,                \* for each item of out, the index of the backend
                          \* event whose handling yielded it (0: none)
    blocks,               \* the tool calls written into the response text
    content,              \* the response text given to parse_tool_calls
    parsed,               \* its result; parsed.called tells it has run
    reparsed,             \* the result of parse_tool_calls on parsed.cleaned
    request,              \* the chat completion request: stream, messages,
                          \* attachments, response_format, max_tokens
    apc,                  \* position of the request in its preparation:
                          \* "idle", "received", "prepared", "converting",
                          \* "adapted", "called", "awaited", "rejected"
                          \* (PoeAPIError 400), "failed" (FileUploadError),
                          \* "raised" (TypeError or ValidationError while
                          \* the messages are prepared)
    messages_list,        \* the prepared messages given to the adapter
    poe_messages,         \* the protocol messages built so far
    all_attachments,      \* the attachments collected so far
    trace,                \* the uploads, the backend call and the backend
                          \* events of the request, in the order they are made
    is_reasoning_model,   \* PoeClient.is_reasoning_model(model)
    cpc,                  \* position of get_complete_response: "idle",
                          \* "loop" (line 429), "returned", "poe_error"
                          \* (PoeAPIError raised)
    cpos,                 \* index of its next backend event
    complete_response,    \* the text it has put together so far
    returned,             \* the tuple it returned: [text, reasoning_tokens]
    peer                  \* the stream_generator of a second request that
                          \* is suspended while this one runs

streamVars == <<request_tools, use_native_tools, events, pos, pc,
                accumulated_content, thinking_state, tool_state, out, cause>>
parseVars == <<blocks, content, parsed, reparsed>>
adaptVars == <<request, apc, messages_list, poe_messages, all_attachments,
               trace>>
completeVars == <<is_reasoning_model, cpc, cpos, complete_response, returned>>
vars == <<streamVars, parseVars, adaptVars, completeVars, peer, drawn>>

(***************************************************************************)
(* Bounds and the inputs the model draws from.                             *)
(***************************************************************************)
\* longest backend stream of Spec
MaxEvents == 3
\* most marker fragments before the clean fragment in SpecCoalesce
MaxMarkers == 3
\* most cuts of a backend text into fragments in SpecSplit
MaxCuts == 1
\* most tool-call blocks of a response text in SpecParse
MaxBlocks == 2
\* most uuids drawn by the process before the modelled call
MaxDrawn == 1
\* longest argument text of SpecRepair that is built from ArgChars
MaxArgLen == 3
\* most pieces of a response text of SpecReparse
MaxPieces == 4

Answer == <<"T","h","e"," ","a","n","s","w","e","r"," ","i","s"," ","4">>
Elapsed == <<" ","(","3","s"," ","e","l","a","p","s","e","d",")">>
GetWeather == <<"g","e","t","_","w","e","a","t","h","e","r">>
GetTime == <<"g","e","t","_","t","i","m","e">>
CityNYC == <<"{","\"","c","i","t","y","\"",":","\"","N","Y","C","\"","}">>
EmptyObject == <<"{","}">>
ImageUrl == <<"u">>
BotError == <<"b","o","t","_","e","r","r","o","r">>
ErrorText == <<"b","o","o","m">>
Prose == <<"O","K",".">>

\* a well-formed inline tool call as the injected prompt asks for it
\* (tool_handler.py 42-45), with whitespace ws between its elements
Block(name, args, ws) ==
    ToolCallOpen \o ws \o NameOpen \o name \o NameClose \o ws
    \o ArgumentsOpen \o args \o ArgumentsClose \o ws \o ToolCallClose

WeatherBlock == Block(GetWeather, CityNYC, <<>>)
TimeBlock == Block(GetTime, EmptyObject, <<>>)

NativeCall ==
    [hasId |-> TRUE, id |-> 1, name |-> GetWeather, arguments |-> CityNYC]
NativeCallNoId ==
    [hasId |-> FALSE, id |-> 0, name |-> GetWeather, arguments |-> CityNYC]

CommonEvents ==
    { Partial(ThinkingMarker), Partial(ThinkingStarted), Partial(Answer),
      Partial(<<>>), ErrorResponse(BotError, ErrorText), MetaResponse,
      AttachmentResponse(ImageUrl) }

XmlEvents == CommonEvents \cup { Partial(WeatherBlock) }

NativeEvents ==
    CommonEvents \cup
    { NativeToolResponse(Answer, <<NativeCall, NativeCallNoId>>, FALSE),
      NativeToolResponse(<<>>, <<NativeCall>>, FALSE),
      NativeToolResponse(Answer, <<>>, TRUE) }

EventsOf(tools, native) ==
    IF ~tools THEN CommonEvents ELSE IF native THEN NativeEvents ELSE XmlEvents

SeqsUpTo(S, n) == UNION {[1..k -> S] : k \in 0..n}

NotParsed == [called |-> FALSE, cleaned |-> <<>>, calls |-> <<>>]

\* no parse_tool_calls call on a complete text is modelled
NoParse ==
    /\ blocks = <<>>
    /\ content = <<>>
    /\ parsed = NotParsed
    /\ reparsed = NotParsed

NoRequest ==
    [stream |-> FALSE, messages |-> <<>>, attachments |-> <<>>,
     response_format |-> FALSE, max_tokens |-> FALSE]

NotReturned == [text |-> <<>>, reasoning_tokens |-> 0]

\* get_complete_response is not running and no second request is served
NoComplete ==
    /\ is_reasoning_model = FALSE
    /\ cpc = "idle"
    /\ cpos = 1
    /\ complete_response = <<>>
    /\ returned = NotReturned
    /\ peer = <<>>

\* no chat completion request is being prepared
NoAdapt ==
    /\ request = NoRequest
    /\ apc = "idle"
    /\ messages_list = <<>>
    /\ poe_messages = <<>>
    /\ all_attachments = <<>>
    /\ trace = <<>>

\* api.py 568-570
InitStream ==
    /\ pos = 1
    /\ pc = "start"
    /\ accumulated_content = <<>>
    /\ thinking_state = [started |-> FALSE, finished |-> FALSE]
    /\ tool_state = [buffer |-> <<>>, finish_reason |-> "stop"]
    /\ out = <<>>
    /\ cause = <<>>

Modes ==
    /\ request_tools \in BOOLEAN
    /\ use_native_tools \in {b \in BOOLEAN : b => request_tools}

Init ==
    /\ Modes
    /\ events \in SeqsUpTo(EventsOf(request_tools, use_native_tools), MaxEvents)
    /\ drawn = 0
    /\ InitStream
    /\ NoComplete
    /\ NoAdapt
    /\ NoParse

(***************************************************************************)
(* Steps of stream_generator.                                              *)
(***************************************************************************)
Emit(chunks, ev) ==
    /\ out' = out \o chunks
    /\ cause' = cause \o [k \in 1..Len(chunks) |-> ev]

PoeErrorChunksTerminal == <<FinishChunk("stop"), Done>>

\* api.py 639-654: the handler of PoeAPIError
PoeErrorChunks == <<FinishChunk("error"), Done>>

\* api.py 583-593: the messages are converted and the backend call starts
PrepareOk ==
    /\ pc = "start"
    /\ pc' = "stream"
    /\ UNCHANGED <<completeVars, peer,
                   request_tools, use_native_tools, events, pos,
                   accumulated_content, thinking_state, tool_state, drawn,
                   out, cause, parseVars, adaptVars>>

\* poe_client.py 277-278: convert_to_poe_messages raises PoeAPIError
PrepareRejected ==
    /\ pc = "start"
    /\ pc' = "poe_error"
    /\ Emit(PoeErrorChunks, 0)
    /\ UNCHANGED <<completeVars, peer,
                   request_tools, use_native_tools, events, pos,
                   accumulated_content, thinking_state, tool_state, drawn,
                   parseVars, adaptVars>>

\* file_handler.py 131-133: an upload made by convert_to_poe_messages raises
\* FileUploadError, which api.py 655-659 turns into StreamingError
PrepareFailed ==
    /\ pc = "start"
    /\ pc' = "raised"
    /\ UNCHANGED <<completeVars, peer,
                   request_tools, use_native_tools, events, pos,
                   accumulated_content, thinking_state, tool_state, drawn,
                   out, cause, parseVars, adaptVars>>

StreamState ==
    [accumulated_content |-> accumulated_content,
     thinking_state      |-> thinking_state,
     tool_state          |-> tool_state,
     drawn               |-> drawn]

\* the generator yields r.chunks and is left in state r.st
Apply(r) ==
    /\ Emit(r.chunks, pos)
    /\ accumulated_content' = r.st.accumulated_content
    /\ thinking_state' = r.st.thinking_state
    /\ tool_state' = r.st.tool_state
    /\ drawn' = r.st.drawn
    /\ pc' = IF r.raised THEN "raised" ELSE "stream"

\* api.py 596-612: the next partial arrives and is translated; an exception
\* raised by the translation ends the generator with StreamingError
\* (api.py 655-659)
NextPartial ==
    /\ pc = "stream"
    /\ pos <= Len(events)
    /\ Apply(HandleStreamingPartial(events[pos], StreamState,
                                    request_tools, use_native_tools))
    /\ pos' = pos + 1
    /\ UNCHANGED <<completeVars, peer,
                   request_tools, use_native_tools, events, parseVars,
                   adaptVars>>

\* poe_client.py 385-417: the backend call fails; get_streaming_response
\* raises PoeAPIError instead of delivering the next event
BackendRaises ==
    /\ pc = "stream"
    /\ pc' = "poe_error"
    /\ Emit(PoeErrorChunks, 0)
    /\ UNCHANGED <<completeVars, peer,
                   request_tools, use_native_tools, events, pos,
                   accumulated_content, thinking_state, tool_state, drawn,
                   parseVars, adaptVars>>

(***************************************************************************)
(* APIHandler._get_non_streaming_response, api.py 729-741: what is made of *)
(* the complete text of the backend.                                       *)
(***************************************************************************)
NonStreamingParse(tools, native, complete_text, n) ==
    IF tools /\ ~native
    THEN [content       |-> ParseToolCalls(complete_text, n).cleaned,
          tool_calls    |-> ParseToolCalls(complete_text, n).calls,
          finish_reason |-> IF ParseToolCalls(complete_text, n).calls # <<>>
                            THEN "tool_calls" ELSE "stop"]
    ELSE [content       |-> complete_text,
          tool_calls    |-> <<>>,
          finish_reason |-> "stop"]

\* api.py 615-618: the calls of the final parse
FinalToolCalls(tools, state, accumulated, n) ==
    IF tools /\ state.buffer # <<>>
    THEN ParseToolCalls(Concat(accumulated), n).calls ELSE <<>>

\* mutation of FinalFinishReason: the calls of the final parse are ignored
FinalFinishReasonAccumulated(state, final_tool_calls) == state.finish_reason

\* api.py 619-620
FinalFinishReason(state, final_tool_calls) ==
    IF final_tool_calls # <<>> THEN "tool_calls" ELSE state.finish_reason

\* mutation of FinalChunks: the sentinel is sent before the terminal delta
FinalChunksSentinelFirst(finish_reason) ==
    <<Done, FinishChunk(finish_reason)>>

\* api.py 622-636
FinalChunks(finish_reason) == <<FinishChunk(finish_reason), Done>>

\* api.py 619-636, given the calls of the final parse
Finish(final_tool_calls) ==
    /\ tool_state' = [tool_state EXCEPT !.finish_reason =
                         FinalFinishReason(tool_state, final_tool_calls)]
    /\ drawn' = drawn + Len(final_tool_calls)
    /\ Emit(FinalChunks(FinalFinishReason(tool_state, final_tool_calls)), 0)

\* api.py 614-637: the backend stream is exhausted
Exhausted ==
    /\ pc = "stream"
    /\ pos > Len(events)
    /\ pc' = "done"
    /\ Finish(FinalToolCalls(request_tools, tool_state, accumulated_content,
                             drawn))
    /\ UNCHANGED <<completeVars, peer,
                   request_tools, use_native_tools, events, pos,
                   accumulated_content, thinking_state, parseVars, adaptVars>>

Next ==
    \/ PrepareOk
    \/ PrepareRejected
    \/ PrepareFailed
    \/ NextPartial
    \/ BackendRaises
    \/ Exhausted

Spec == Init /\ [][Next]_vars

(***************************************************************************)
(* The client disconnects.  The server cancels the task that runs          *)
(* stream_generator: asyncio.CancelledError is raised where the generator  *)
(* awaits the next backend event, or GeneratorExit where it is suspended   *)
(* at a yield.  Both derive from BaseException and not from Exception.     *)
(***************************************************************************)
Cancellations == {"CancelledError", "GeneratorExit"}

\* mutation of OnException: the cancellation is answered in band
OnExceptionInBand(exc) ==
    IF exc = "PoeAPIError"
    THEN [pc |-> "poe_error", chunks |-> PoeErrorChunks]
    ELSE IF exc \notin Cancellations
    THEN [pc |-> "raised", chunks |-> <<>>]
    ELSE [pc |-> "cancelled", chunks |-> PoeErrorChunks]

\* api.py 639-659: what the handlers of stream_generator do with an
\* exception of class exc: "except PoeAPIError" yields the error chunk and
\* the sentinel, "except Exception" raises StreamingError, and no handler
\* catches what is no Exception (neither does poe_client.py 385)
OnException(exc) ==
    IF exc = "PoeAPIError"
    THEN [pc |-> "poe_error", chunks |-> PoeErrorChunks]
    ELSE IF exc \notin Cancellations
    THEN [pc |-> "raised", chunks |-> <<>>]
    ELSE [pc |-> "cancelled", chunks |-> <<>>]

\* api.py 583-636: the generator is suspended, before the backend call or
\* in the loop, when the cancellation reaches it
Cancel ==
    /\ pc \in {"start", "stream"}
    /\ \E exc \in Cancellations :
           /\ pc' = OnException(exc).pc
           /\ Emit(OnException(exc).chunks, 0)
    /\ UNCHANGED <<completeVars, peer,
                   request_tools, use_native_tools, events, pos,
                   accumulated_content, thinking_state, tool_state, drawn,
                   parseVars, adaptVars>>

NextCancel ==
    \/ Next
    \/ Cancel

SpecCancel == Init /\ [][NextCancel]_vars

(***************************************************************************)
(* A stream of marker fragments followed by one clean fragment.            *)
(***************************************************************************)
MarkerFragments ==
    { ThinkingMarker, ThinkingMarker \o Elapsed, ThinkingStarted,
      SubSeq(ThinkingStarted, 1, Len(ThinkingStarted) - 1) }

CleanFragments == { Answer, Prose, <<"*">> }

\* the fragments as backend text events
TextEvents(texts) == [k \in 1..Len(texts) |-> Partial(texts[k])]

InitCoalesce ==
    /\ Modes
    /\ \E markers \in SeqsUpTo(MarkerFragments, MaxMarkers) \ {<<>>} :
           \E clean \in CleanFragments :
               events = TextEvents(Append(markers, clean))
    /\ drawn = 0
    /\ InitStream
    /\ NoComplete
    /\ NoAdapt
    /\ NoParse

SpecCoalesce == InitCoalesce /\ [][Next]_vars

(***************************************************************************)
(* A backend text holding one inline tool call, delivered in fragments,    *)
(* to a request with tools on the inline-XML path: the call alone, the     *)
(* call with prose around it, and the call followed by the opening tag of  *)
(* a call that never came.                                                 *)
(***************************************************************************)
SplitTexts ==
    { WeatherBlock, Prose \o WeatherBlock \o Prose,
      WeatherBlock \o ToolCallOpen }

\* the ways to cut a text of n characters at up to m places: the strictly
\* increasing sequences of positions after which a fragment ends
CutSeqs(n, m) ==
    UNION {{c \in [1..k -> 1..(n - 1)] : \A i \in 1..(k - 1) : c[i] < c[i + 1]}
           : k \in 0..m}

FragmentStart(c, i) == IF i = 1 THEN 1 ELSE c[i - 1] + 1
FragmentEnd(text, c, i) == IF i = Len(c) + 1 THEN Len(text) ELSE c[i]

Fragments(text, c) ==
    [i \in 1..(Len(c) + 1) |->
        SubSeq(text, FragmentStart(c, i), FragmentEnd(text, c, i))]

InitSplit ==
    /\ request_tools = TRUE
    /\ use_native_tools = FALSE
    /\ \E text \in SplitTexts :
           \E c \in CutSeqs(Len(text), MaxCuts) :
               events = TextEvents(Fragments(text, c))
    /\ drawn = 0
    /\ InitStream
    /\ NoComplete
    /\ NoAdapt
    /\ NoParse

SpecSplit == InitSplit /\ [][Next]_vars

(***************************************************************************)
(* A backend text holding two inline tool calls, delivered in fragments    *)
(* that end at the edge of a tag or one character inside it: two different *)
(* calls with prose between them, and the same call twice.                 *)
(***************************************************************************)
BlockTexts ==
    { TimeBlock \o Prose \o WeatherBlock, TimeBlock \o TimeBlock }

\* the positions of text next to a "<" or a ">"
TagEdges(text) ==
    {p \in 1..(Len(text) - 1) :
        text[p] \in {"<", ">"} \/ text[p + 1] \in {"<", ">"}}

\* the ways to cut a text at up to m of the positions P
CutSeqsIn(P, m) ==
    UNION {{c \in [1..k -> P] : \A i \in 1..(k - 1) : c[i] < c[i + 1]}
           : k \in 0..m}

InitBlocks ==
    /\ request_tools = TRUE
    /\ use_native_tools = FALSE
    /\ \E text \in BlockTexts :
           \E c \in CutSeqsIn(TagEdges(text), MaxCuts) :
               events = TextEvents(Fragments(text, c))
    /\ drawn = 0
    /\ InitStream
    /\ NoComplete
    /\ NoAdapt
    /\ NoParse

SpecBlocks == InitBlocks /\ [][Next]_vars

(***************************************************************************)
(* One call of ToolCallHandler.parse_tool_calls on a response text that    *)
(* holds well-formed tool-call blocks with prose around them.              *)
(***************************************************************************)
UnquotedKey == <<"{","a",":","1","}">>
NotJson == <<"o","o","p","s">>
Aside == <<"a","<","b"," ">>

ParseBlocks ==
    { [name |-> GetWeather, args |-> CityNYC, ws |-> <<>>],
      [name |-> <<" ">> \o GetTime \o <<" ">>,
       args |-> <<"\n">> \o EmptyObject \o <<"\n">>, ws |-> <<"\n">>],
      [name |-> GetTime, args |-> UnquotedKey, ws |-> <<" ">>],
      [name |-> GetWeather, args |-> NotJson, ws |-> <<>>] }

Proses == { <<>>, Aside }

\* prose[0], block 1, prose[1], ..., block N, prose[N]
Render(bs, prose) ==
    Concat([i \in 1..(2 * Len(bs) + 1) |->
               IF i % 2 = 1 THEN prose[(i - 1) \div 2]
               ELSE Block(bs[i \div 2].name, bs[i \div 2].args,
                          bs[i \div 2].ws)])

InitParse ==
    /\ request_tools = TRUE
    /\ use_native_tools = FALSE
    /\ events = <<>>
    /\ InitStream
    /\ NoComplete
    /\ NoAdapt
    /\ drawn \in 0..MaxDrawn
    /\ blocks \in SeqsUpTo(ParseBlocks, MaxBlocks)
    /\ \E prose \in [0..Len(blocks) -> Proses] :
           content = Render(blocks, prose)
    /\ parsed = NotParsed
    /\ reparsed = NotParsed

\* the call returns r; one uuid was drawn per ToolCall
Returned(r) ==
    /\ parsed' = [called |-> TRUE, cleaned |-> r.cleaned, calls |-> r.calls]
    /\ drawn' = drawn + Len(r.calls)

\* tool_handler.py 112-156
Parse ==
    /\ ~parsed.called
    /\ Returned(ParseToolCalls(content, drawn))
    /\ UNCHANGED <<completeVars, peer,
                   streamVars, adaptVars, blocks, content, reparsed>>

NextParse == Parse

SpecParse == InitParse /\ [][NextParse]_vars

(***************************************************************************)
(* One call of ToolCallHandler.parse_tool_calls on a response text that    *)
(* holds one tool-call block, for many argument texts.                     *)
(***************************************************************************)
ArgChars == {"{", "}", ":", "\"", "a", "N", "1"}

NaNObject == <<"{","\"","x","\"",":"," ","N","a","N","}">>

ArgumentTexts ==
    SeqsUpTo(ArgChars, MaxArgLen)
        \cup {CityNYC, EmptyObject, UnquotedKey, NotJson, NaNObject}

InitRepair ==
    /\ request_tools = TRUE
    /\ use_native_tools = FALSE
    /\ events = <<>>
    /\ InitStream
    /\ NoComplete
    /\ NoAdapt
    /\ drawn = 0
    /\ \E a \in ArgumentTexts :
           blocks = <<[name |-> GetWeather, args |-> a, ws |-> <<>>]>>
    /\ content = Render(blocks, [i \in 0..1 |-> <<>>])
    /\ parsed = NotParsed
    /\ reparsed = NotParsed

SpecRepair == InitRepair /\ [][NextParse]_vars

(***************************************************************************)
(* ToolCallHandler.parse_tool_calls called on a response text put together *)
(* from pieces of markup and prose, and then on its own cleaned output.    *)
(***************************************************************************)
BlockBody ==
    NameOpen \o GetTime \o NameClose
    \o ArgumentsOpen \o EmptyObject \o ArgumentsClose

TextPieces ==
    { ToolCallOpen, BlockBody, ToolCallClose,
      ToolCallOpen \o BlockBody \o ToolCallClose,
      ThinkingMarker, <<" ">>, <<"x">> }

InitReparse ==
    /\ request_tools = TRUE
    /\ use_native_tools = FALSE
    /\ events = <<>>
    /\ InitStream
    /\ NoComplete
    /\ NoAdapt
    /\ drawn = 0
    /\ blocks = <<>>
    /\ \E pieces \in SeqsUpTo(TextPieces, MaxPieces) :
           content = Concat(pieces)
    /\ parsed = NotParsed
    /\ reparsed = NotParsed

\* the second call returns r
ReturnedAgain(r) ==
    /\ reparsed' = [called |-> TRUE, cleaned |-> r.cleaned, calls |-> r.calls]
    /\ drawn' = drawn + Len(r.calls)

\* tool_handler.py 112-156, on the cleaned output of the first call
Reparse ==
    /\ parsed.called
    /\ ~reparsed.called
    /\ ReturnedAgain(ParseToolCalls(parsed.cleaned, drawn))
    /\ UNCHANGED <<completeVars, peer,
                   streamVars, adaptVars, blocks, content, parsed>>

NextReparse ==
    \/ Parse
    \/ Reparse

SpecReparse == InitReparse /\ [][NextReparse]_vars

(***************************************************************************)
(* The Message Adapter (PoeClient.convert_to_poe_messages) and the         *)
(* preparation of its input.  A message content is a sequence of items: a  *)
(* text, a data-URI image or a file:// URI written in a text.  What the    *)
(* upload of an item will do is part of the item:                          *)
(*   image "unreadable"    the data URL does not decode, or the temporary  *)
(*                         file cannot be written (poe_client.py 193-201,  *)
(*                         219-220)                                        *)
(*   file "missing"        no file at that path (poe_client.py 30-31)      *)
(*   "upload_error"        fp.upload_file_sync fails                       *)
(*                         (file_handler.py 131-133)                       *)
(***************************************************************************)
MaxMessages == 2
\* items in one conversation
MaxItems == 2

Roles == {"system", "user", "assistant", "tool"}

TextItem == [kind |-> "text", fate |-> "none"]
ImageItems ==
    {[kind |-> "image", fate |-> f] : f \in {"ok", "unreadable", "upload_error"}}
FileItems ==
    {[kind |-> "file", fate |-> f] : f \in {"ok", "missing", "upload_error"}}
Items == {TextItem} \cup ImageItems \cup FileItems

\* the instructions written into the system message
ToolPrompt == [kind |-> "tool_prompt", fate |-> "none"]
FormatInstruction == [kind |-> "format_instruction", fate |-> "none"]
MaxTokensInstruction == [kind |-> "max_tokens_instruction", fate |-> "none"]

\* the pieces of a text content
TextToken(item) == [tok |-> item.kind, id |-> <<>>]
FileToken(id) == [tok |-> "file", id |-> id]
FailedImage == [tok |-> "[Failed to process base64 image]", id |-> <<>>]
UnsupportedImage ==
    [tok |-> "[Base64 image - upload not yet implemented]", id |-> <<>>]

\* an upload and how it ended, the backend call, a backend event
Upload(id, ok) == [op |-> "upload", id |-> id, ok |-> ok]
BackendCalled == [op |-> "call", id |-> <<>>, ok |-> TRUE]
BackendEvent == [op |-> "event", id |-> <<>>, ok |-> TRUE]

Reverse(s) == [k \in 1..Len(s) |-> s[Len(s) + 1 - k]]

\* the characters of an instruction, each one an element of a content list
\* (api.py 321, when the content of the system message is a list)
InstructionChars == [kind |-> "chars", fate |-> "none"]

\* the value of a call that returns the messages, and of one that raises
Returns(messages) == [raised |-> FALSE, messages |-> messages]
Raises == [raised |-> TRUE, messages |-> <<>>]

\* tool_handler.py 52-56, api.py 316-317: the first system message, or 0
FirstSystem(messages) ==
    MinOr({i \in 1..Len(messages) : messages[i].role = "system"}, 0)

SystemMessage(instruction) ==
    [role |-> "system", content |-> <<instruction>>, form |-> "str"]

\* tool_handler.py 58-62: str + "\n\n" + content raises TypeError unless
\* the content is a str
PrependToSystem(messages, i) ==
    IF messages[i].form # "str" THEN Raises
    ELSE Returns([messages EXCEPT ![i].content = <<ToolPrompt>> \o @])

\* tool_handler.py 23-67, with a non-empty tools list
InjectToolsIntoMessages(messages) ==
    IF FirstSystem(messages) # 0
    THEN PrependToSystem(messages, FirstSystem(messages))
    ELSE Returns(<<SystemMessage(ToolPrompt)>> \o messages)

\* api.py 318: content += str raises TypeError on None, and on a list
\* appends the characters of the string to it
AppendToSystem(messages, i, instruction) ==
    CASE messages[i].form = "str" ->
             Returns([messages EXCEPT ![i].content = @ \o <<instruction>>])
      [] messages[i].form = "list" ->
             Returns([messages EXCEPT ![i].content = @ \o <<InstructionChars>>])
      [] OTHER -> Raises

\* api.py 313-322
AddSystemMessage(messages, instruction) ==
    IF FirstSystem(messages) # 0
    THEN AppendToSystem(messages, FirstSystem(messages), instruction)
    ELSE Returns(<<SystemMessage(instruction)>> \o messages)

\* api.py 298-301, 679-682
WithTools(messages, tools, native) ==
    IF ~native /\ tools THEN InjectToolsIntoMessages(messages)
    ELSE Returns(messages)

\* api.py 304-309, 685-690, after a step that returned or raised r
WithResponseFormat(r, req) ==
    IF ~r.raised /\ req.response_format
    THEN AddSystemMessage(r.messages, FormatInstruction)
    ELSE r

\* api.py 693-698
WithMaxTokens(r, req) ==
    IF ~r.raised /\ req.max_tokens
    THEN AddSystemMessage(r.messages, MaxTokensInstruction)
    ELSE r

\* api.py 587, 713: ChatMessage(**msg) raises ValidationError for a content
\* list that holds something else than dicts
Validated(r) ==
    IF \E i \in 1..Len(r.messages) :
          \E k \in 1..Len(r.messages[i].content) :
              r.messages[i].content[k] = InstructionChars
    THEN Raises ELSE r

\* api.py 292-311 and 587
PrepareMessagesForStreaming(req, tools, native) ==
    Validated(WithResponseFormat(WithTools(req.messages, tools, native), req))

\* api.py 671-700 and 713
PrepareMessagesForCompletion(req, tools, native) ==
    Validated(WithMaxTokens(
        WithResponseFormat(WithTools(req.messages, tools, native), req), req))

\* mutation of role_mapping: the role is kept as it is
role_mappingKeeping(role) == role

\* poe_client.py 289-290
role_mapping(role) ==
    CASE role = "assistant" -> "bot"
      [] role = "user" -> "user"
      [] role = "system" -> "system"
      [] OTHER -> "user"

NoUploads == [text |-> <<>>, attachments |-> <<>>, uploads |-> <<>>,
              raised |-> FALSE]

\* poe_client.py 203-243, 245-270: one item of a structured content
Base64Item(item, id, r) ==
    CASE item.kind = "image" /\ item.fate = "ok" ->
             [r EXCEPT !.attachments = Append(@, id),
                       !.uploads = Append(@, Upload(id, TRUE))]
      [] item.kind = "image" /\ item.fate = "unreadable" ->
             [r EXCEPT !.text = Append(@, FailedImage)]
      [] item.kind = "image" /\ item.fate = "upload_error" ->
             [r EXCEPT !.uploads = Append(@, Upload(id, FALSE)),
                       !.raised = TRUE]
      [] item.kind = "file" -> [r EXCEPT !.text = Append(@, FileToken(id))]
      [] OTHER -> [r EXCEPT !.text = Append(@, TextToken(item))]

\* poe_client.py 245-270: the items from j on, until an upload raises
RECURSIVE ExtractAndUploadBase64Images(_, _, _, _)
ExtractAndUploadBase64Images(parts, m, j, r) ==
    IF j > Len(parts) \/ r.raised THEN r
    ELSE ExtractAndUploadBase64Images(
             parts, m, j + 1, Base64Item(parts[j], <<m, j>>, r))

\* poe_client.py 122-146
ExtractTextContent(parts, m) ==
    [j \in 1..Len(parts) |->
        CASE parts[j].kind = "image" -> UnsupportedImage
          [] parts[j].kind = "file" -> FileToken(<<m, j>>)
          [] OTHER -> TextToken(parts[j])]

\* poe_client.py 162-186: one match of the file pattern; the item the URI
\* was written by tells what the upload does
EmbeddedMatch(text, k, fate, r) ==
    CASE fate = "ok" ->
             [r EXCEPT !.attachments = Append(@, text[k].id),
                       !.uploads = Append(@, Upload(text[k].id, TRUE)),
                       !.text = SubSeq(@, 1, k - 1) \o Drop(@, k + 1)]
      [] fate = "upload_error" ->
             [r EXCEPT !.uploads = Append(@, Upload(text[k].id, FALSE)),
                       !.raised = TRUE]
      [] OTHER -> r

\* poe_client.py 160-186: the matches at k and before it, last one first
RECURSIVE UploadMatches(_, _, _, _)
UploadMatches(text, parts, k, r) ==
    IF k = 0 \/ r.raised THEN r
    ELSE IF text[k].tok # "file"
    THEN UploadMatches(text, parts, k - 1, r)
    ELSE UploadMatches(text, parts, k - 1,
             EmbeddedMatch(text, k, parts[text[k].id[2]].fate, r))

\* poe_client.py 188
ReturnReversed(r) == [r EXCEPT !.attachments = Reverse(@)]

\* poe_client.py 149-188
ExtractAndUploadAttachments(text, parts) ==
    ReturnReversed(UploadMatches(text, parts, Len(text),
                                 [NoUploads EXCEPT !.text = text]))

\* poe_client.py 296-300: the text the file URIs are looked for in
TextContent(parts, m, b) ==
    IF b.attachments # <<>> THEN b.text ELSE ExtractTextContent(parts, m)

\* poe_client.py 304-318, given the results of both extractions
Converted(msg, text, b, e) ==
    [message |-> [role |-> role_mapping(msg.role),
                  content |-> IF e.attachments # <<>> THEN e.text ELSE text,
                  attachments |-> <<>>],
     attachments |-> b.attachments \o e.attachments,
     uploads |-> b.uploads \o e.uploads,
     raised |-> e.raised]

\* poe_client.py 292-318, after the images of the message were uploaded
ConvertAfterImages(msg, m, b) ==
    IF b.raised
    THEN [message |-> <<>>, attachments |-> <<>>, uploads |-> b.uploads,
          raised |-> TRUE]
    ELSE Converted(msg, TextContent(msg.content, m, b), b,
                   ExtractAndUploadAttachments(
                       TextContent(msg.content, m, b), msg.content))

\* poe_client.py 288-320: one turn of the loop, for message m
ConvertOne(msg, m) ==
    ConvertAfterImages(
        msg, m, ExtractAndUploadBase64Images(msg.content, m, 1, NoUploads))

\* mutation of LastUserIndex: the first message of role user is taken
LastUserIndexFirst(messages) ==
    MinOr({i \in 1..Len(messages) : messages[i].role = "user"}, 0)

\* poe_client.py 327-331; 0 when no message has role user
LastUserIndex(messages) ==
    IF \E i \in 1..Len(messages) : messages[i].role = "user"
    THEN Max({i \in 1..Len(messages) : messages[i].role = "user"})
    ELSE 0

\* poe_client.py 326-340
AttachAll(messages, attachments) ==
    IF attachments = <<>> THEN messages
    ELSE IF LastUserIndex(messages) # 0
    THEN [messages EXCEPT ![LastUserIndex(messages)].attachments = attachments]
    ELSE [messages EXCEPT ![Len(messages)].attachments = attachments]

\* the contents of the messages of a conversation, from its items and the
\* message each item belongs to
ContentOf(items, owner, i) ==
    IF \E k \in 1..Len(items) : owner[k] = i
    THEN SubSeq(items, Min({k \in 1..Len(items) : owner[k] = i}),
                Max({k \in 1..Len(items) : owner[k] = i}))
    ELSE <<>>

Conversation(roles, items, owner) ==
    [i \in 1..Len(roles) |->
        [role |-> roles[i], content |-> ContentOf(items, owner, i),
         form |-> IF ContentOf(items, owner, i) = <<>> THEN "none"
                  ELSE "list"]]

Owners(n, k) ==
    {o \in [1..k -> 1..n] : \A a, b \in 1..k : a <= b => o[a] <= o[b]}

\* a text as a str, a text as a list of one part, no content
PlainContents ==
    {[content |-> <<TextItem>>, form |-> "str"],
     [content |-> <<TextItem>>, form |-> "list"],
     [content |-> <<>>, form |-> "none"]}

PlainMessages ==
    {[role |-> r, content |-> c.content, form |-> c.form] :
        r \in Roles, c \in PlainContents}

\* conversations of at most one text per message
PlainConversations == SeqsUpTo(PlainMessages, MaxMessages)

\* the attachments uploaded by the route before the request is handled
ExplicitAttachments == {<<>>, <<<<0, 1>>>>}

\* a request of texts, whatever its settings
PlainRequests ==
    [stream : BOOLEAN, messages : PlainConversations,
     attachments : ExplicitAttachments,
     response_format : BOOLEAN, max_tokens : BOOLEAN]

\* a streaming request without response_format and max_tokens, for the
\* conversation of the given roles and items
BareRequest(roles, items, owner, attachments) ==
    [stream |-> TRUE, messages |-> Conversation(roles, items, owner),
     attachments |-> attachments,
     response_format |-> FALSE, max_tokens |-> FALSE]

\* such a request without tools, for every conversation of systems, users
\* and assistants that has at most MaxItems items in all
InitBare ==
    /\ ~request_tools
    /\ \E roles \in SeqsUpTo(Roles \ {"tool"}, MaxMessages) :
       \E items \in SeqsUpTo(Items, MaxItems) :
       \E owner \in Owners(Len(roles), Len(items)) :
       \E attachments \in ExplicitAttachments :
           request = BareRequest(roles, items, owner, attachments)

InitAdapt ==
    /\ Modes
    /\ events = <<>>
    /\ drawn = 0
    /\ InitStream
    /\ NoComplete
    /\ NoParse
    /\ \/ request \in PlainRequests
       \/ InitBare
    /\ apc = "received"
    /\ messages_list = <<>>
    /\ poe_messages = <<>>
    /\ all_attachments = <<>>
    /\ trace = <<>>

\* api.py 584-587, 712-713
Prepared ==
    IF request.stream
    THEN PrepareMessagesForStreaming(request, request_tools, use_native_tools)
    ELSE PrepareMessagesForCompletion(request, request_tools, use_native_tools)

\* api.py 584-587, 712-713: the messages are prepared
PrepareMessages ==
    /\ apc = "received"
    /\ ~Prepared.raised
    /\ apc' = "prepared"
    /\ messages_list' = Prepared.messages
    /\ UNCHANGED <<completeVars, peer,
                   streamVars, parseVars, drawn, request, poe_messages,
                   all_attachments, trace>>

\* tool_handler.py 58-62, api.py 318, 587, 713: the preparation raises
PrepareRaises ==
    /\ apc = "received"
    /\ Prepared.raised
    /\ apc' = "raised"
    /\ UNCHANGED <<completeVars, peer,
                   streamVars, parseVars, drawn, request, messages_list,
                   poe_messages, all_attachments, trace>>

\* poe_client.py 277-278
RejectEmpty ==
    /\ apc = "prepared"
    /\ messages_list = <<>>
    /\ apc' = "rejected"
    /\ UNCHANGED <<completeVars, peer,
                   streamVars, parseVars, drawn, request, messages_list,
                   poe_messages, all_attachments, trace>>

Converting ==
    /\ apc \in {"prepared", "converting"}
    /\ Len(poe_messages) < Len(messages_list)

\* the outcome of the next turn of the loop of poe_client.py 288
NextConverted ==
    {ConvertOne(messages_list[Len(poe_messages) + 1], Len(poe_messages) + 1)}

\* poe_client.py 288-320: the next message is converted
ConvertMessage ==
    /\ Converting
    /\ \E c \in NextConverted :
          /\ ~c.raised
          /\ poe_messages' = Append(poe_messages, c.message)
          /\ all_attachments' = all_attachments \o c.attachments
          /\ trace' = trace \o c.uploads
    /\ apc' = "converting"
    /\ UNCHANGED <<completeVars, peer,
                   streamVars, parseVars, drawn, request, messages_list>>

\* file_handler.py 131-133: an upload of the next message raises
\* FileUploadError, which nothing in convert_to_poe_messages catches
UploadRaises ==
    /\ Converting
    /\ \E c \in NextConverted :
          /\ c.raised
          /\ trace' = trace \o c.uploads
    /\ apc' = "failed"
    /\ UNCHANGED <<completeVars, peer,
                   streamVars, parseVars, drawn, request, messages_list,
                   poe_messages, all_attachments>>

\* poe_client.py 322-344: the attachments are given to one message
ReturnMessages ==
    /\ apc = "converting"
    /\ Len(poe_messages) = Len(messages_list)
    /\ apc' = "adapted"
    /\ all_attachments' = all_attachments \o request.attachments
    /\ poe_messages' =
           AttachAll(poe_messages, all_attachments \o request.attachments)
    /\ UNCHANGED <<completeVars, peer,
                   streamVars, parseVars, drawn, request, messages_list,
                   trace>>

\* mutation of Awaited: the call does not wait for the conversion to end
AwaitedNot(p) == p \in {"converting", "adapted"}

\* api.py 588-596, 712-723: the call is made with the value awaited from
\* convert_to_poe_messages
Awaited(p) == p = "adapted"

\* api.py 596, 719: the backend call starts
CallBackend ==
    /\ Awaited(apc)
    /\ apc' = "called"
    /\ trace' = Append(trace, BackendCalled)
    /\ UNCHANGED <<completeVars, peer,
                   streamVars, parseVars, drawn, request, messages_list,
                   poe_messages, all_attachments>>

\* api.py 596, poe_client.py 385-417: the first backend event is awaited
AwaitEvent ==
    /\ apc = "called"
    /\ apc' = "awaited"
    /\ trace' = Append(trace, BackendEvent)
    /\ UNCHANGED <<completeVars, peer,
                   streamVars, parseVars, drawn, request, messages_list,
                   poe_messages, all_attachments>>

NextAdapt ==
    \/ PrepareMessages
    \/ PrepareRaises
    \/ RejectEmpty
    \/ ConvertMessage
    \/ UploadRaises
    \/ ReturnMessages
    \/ CallBackend
    \/ AwaitEvent

SpecAdapt == InitAdapt /\ [][NextAdapt]_vars

(***************************************************************************)
(* The Tool Directive Injector alone: inject_tools_into_messages as        *)
(* _prepare_messages_for_streaming calls it, and called once more on the   *)
(* list it returned.                                                       *)
(***************************************************************************)
\* api.py 294-301: the call returns
Inject ==
    /\ apc = "received"
    /\ ~WithTools(request.messages, request_tools, use_native_tools).raised
    /\ apc' = "injected"
    /\ messages_list' =
           WithTools(request.messages, request_tools, use_native_tools).messages
    /\ UNCHANGED <<completeVars, peer,
                   streamVars, parseVars, drawn, request, poe_messages,
                   all_attachments, trace>>

\* tool_handler.py 58-62: the call raises TypeError
InjectRaises ==
    /\ apc = "received"
    /\ WithTools(request.messages, request_tools, use_native_tools).raised
    /\ apc' = "raised"
    /\ UNCHANGED <<completeVars, peer,
                   streamVars, parseVars, drawn, request, messages_list,
                   poe_messages, all_attachments, trace>>

\* tool_handler.py 23-67: a second call, on the list the first one returned
InjectAgain ==
    /\ apc = "injected"
    /\ ~WithTools(messages_list, request_tools, use_native_tools).raised
    /\ apc' = "injected_twice"
    /\ messages_list' =
           WithTools(messages_list, request_tools, use_native_tools).messages
    /\ UNCHANGED <<completeVars, peer,
                   streamVars, parseVars, drawn, request, poe_messages,
                   all_attachments, trace>>

NextInject ==
    \/ Inject
    \/ InjectRaises
    \/ InjectAgain

SpecInject == InitAdapt /\ [][NextInject]_vars

(***************************************************************************)
(* The non-streaming path: PoeClient.get_complete_response                 *)
(* (poe_client.py 419-469) drains the backend stream into one text and     *)
(* finalizes it.                                                           *)
(***************************************************************************)
\* longest backend stream of SpecComplete and SpecAgree
MaxFragments == 3

Elapsed12 ==
    <<" ","(","1","2","s"," ","e","l","a","p","s","e","d",")">>
Pondering ==
    <<"L","e","t"," ","m","e"," ","t","h","i","n","k">>
Tagged ==
    <<"<","t","h","i","n","k",">","h","m","<","/","t","h","i","n","k",">">>
Indent ==
    <<" "," "," ">>

CompleteEvents ==
    { Partial(ThinkingMarker), Partial(ThinkingMarker \o Elapsed),
      Partial(ThinkingMarker \o Elapsed12), Partial(ThinkingStarted),
      Partial(Elapsed), Partial(Answer), Partial(Pondering), Partial(Tagged),
      Partial(Indent), ErrorResponse(BotError, ErrorText),
      AttachmentResponse(ImageUrl) }

InitComplete ==
    /\ request_tools = FALSE
    /\ use_native_tools = FALSE
    /\ events \in SeqsUpTo(CompleteEvents, MaxFragments)
    /\ drawn = 0
    /\ InitStream
    /\ NoAdapt
    /\ NoParse
    /\ is_reasoning_model \in BOOLEAN
    /\ cpc = "loop"
    /\ cpos = 1
    /\ complete_response = <<>>
    /\ returned = NotReturned
    /\ peer = <<>>

\* poe_client.py 433-437: what a partial adds to complete_response
CompletePiece(partial) ==
    (IF partial.attachment # <<>> THEN AttachmentText(partial.attachment)
     ELSE <<>>)
    \o partial.text

\* mutation of CompleteText: a reasoning model's text is cleaned whenever
\* it holds the marker, whatever it begins with
CompleteTextAlways(text, reasoning) ==
    IF reasoning /\ Contains(text, ThinkingMarker)
    THEN remove_thinking_noise(text)
    ELSE text

\* poe_client.py 442-463: the text get_complete_response returns
CompleteText(text, reasoning) ==
    IF reasoning
    THEN IF Contains(text, ThinkingMarker) /\ ~StartsWith(text, ThinkingStarted)
         THEN remove_thinking_noise(text)
         ELSE text
    ELSE text

\* mutation of CompleteResult: the reasoning model's text is never cleaned
CompleteResultRaw(text, reasoning) ==
    [text |-> text,
     reasoning_tokens |-> IF reasoning THEN estimate_reasoning_tokens(text)
                          ELSE 0]

\* poe_client.py 443-463: the tuple get_complete_response returns
CompleteResult(text, reasoning) ==
    IF reasoning
    THEN [text |-> CompleteText(text, reasoning),
          reasoning_tokens |-> estimate_reasoning_tokens(text)]
    ELSE [text |-> CompleteText(text, reasoning), reasoning_tokens |-> 0]

\* poe_client.py 429-437: the next partial of the backend stream
CompleteNext ==
    /\ cpc = "loop"
    /\ cpos <= Len(events)
    /\ complete_response' = complete_response \o CompletePiece(events[cpos])
    /\ cpos' = cpos + 1
    /\ UNCHANGED <<streamVars, parseVars, adaptVars, drawn, peer,
                   is_reasoning_model, cpc, returned>>

\* poe_client.py 385-417, 465-466: the backend call fails and PoeAPIError
\* leaves get_complete_response
CompleteRaises ==
    /\ cpc = "loop"
    /\ cpc' = "poe_error"
    /\ UNCHANGED <<streamVars, parseVars, adaptVars, drawn, peer,
                   is_reasoning_model, cpos, complete_response, returned>>

\* poe_client.py 439-463: the backend stream is exhausted
CompleteReturn ==
    /\ cpc = "loop"
    /\ cpos > Len(events)
    /\ cpc' = "returned"
    /\ returned' = CompleteResult(complete_response, is_reasoning_model)
    /\ UNCHANGED <<streamVars, parseVars, adaptVars, drawn, peer,
                   is_reasoning_model, cpos, complete_response>>

NextComplete ==
    \/ CompleteNext
    \/ CompleteRaises
    \/ CompleteReturn

SpecComplete == InitComplete /\ [][NextComplete]_vars

\* the same backend stream given to stream_generator and to
\* get_complete_response
NextAgree ==
    \/ PrepareOk
    \/ NextPartial
    \/ Exhausted
    \/ CompleteNext
    \/ CompleteReturn

SpecAgree == InitComplete /\ [][NextAgree]_vars

(***************************************************************************)
(* Two streaming requests served by the same APIHandler.  Each call of     *)
(* create_streaming_response makes its own stream_generator; the event     *)
(* loop runs one of them while the other is suspended where it awaits its  *)
(* next backend event, and may switch between them at every such point.    *)
(* The uuid4 source is the only thing both draw from.                      *)
(***************************************************************************)
\* longest backend stream of each request of SpecTwo
MaxPeerEvents == 2

PeerEvents ==
    { Partial(ThinkingMarker), Partial(Answer), Partial(WeatherBlock) }

\* api.py 563-582: what stream_generator holds in the variables of its own
\* call, here for the generator that runs
Frame ==
    [request_tools       |-> request_tools,
     use_native_tools    |-> use_native_tools,
     events              |-> events,
     pos                 |-> pos,
     pc                  |-> pc,
     accumulated_content |-> accumulated_content,
     thinking_state      |-> thinking_state,
     tool_state          |-> tool_state,
     out                 |-> out,
     cause               |-> cause]

\* api.py 568-570: the state a generator starts with
NewFrame(evs) ==
    [request_tools       |-> TRUE,
     use_native_tools    |-> FALSE,
     events              |-> evs,
     pos                 |-> 1,
     pc                  |-> "start",
     accumulated_content |-> <<>>,
     thinking_state      |-> [started |-> FALSE, finished |-> FALSE],
     tool_state          |-> [buffer |-> <<>>, finish_reason |-> "stop"],
     out                 |-> <<>>,
     cause               |-> <<>>]

InitTwo ==
    /\ request_tools = TRUE
    /\ use_native_tools = FALSE
    /\ events \in SeqsUpTo(PeerEvents, MaxPeerEvents)
    /\ drawn = 0
    /\ InitStream
    /\ NoAdapt
    /\ NoParse
    /\ is_reasoning_model = FALSE
    /\ cpc = "idle"
    /\ cpos = 1
    /\ complete_response = <<>>
    /\ returned = NotReturned
    /\ \E evs \in SeqsUpTo(PeerEvents, MaxPeerEvents) : peer = NewFrame(evs)

\* mutation of Resumed: the tool state is kept on the handler, one for all
\* requests
ResumedSharing(frame) == [frame EXCEPT !.tool_state = tool_state]

\* api.py 563-570: the state is made of local variables of the generator,
\* which finds them as it left them when it is resumed
Resumed(frame) == frame

\* the event loop suspends the running generator and resumes the other
Switch ==
    /\ peer' = Frame
    /\ request_tools' = Resumed(peer).request_tools
    /\ use_native_tools' = Resumed(peer).use_native_tools
    /\ events' = Resumed(peer).events
    /\ pos' = Resumed(peer).pos
    /\ pc' = Resumed(peer).pc
    /\ accumulated_content' = Resumed(peer).accumulated_content
    /\ thinking_state' = Resumed(peer).thinking_state
    /\ tool_state' = Resumed(peer).tool_state
    /\ out' = Resumed(peer).out
    /\ cause' = Resumed(peer).cause
    /\ UNCHANGED <<completeVars, parseVars, adaptVars, drawn>>

NextTwo ==
    \/ PrepareOk
    \/ NextPartial
    \/ Exhausted
    \/ Switch

SpecTwo == InitTwo /\ [][NextTwo]_vars


(***************************************************************************)
(* What the properties below speak about, computed from the backend        *)
(* events alone.                                                           *)
(***************************************************************************)
\* the generator has ended
Ended == pc \in {"done", "poe_error", "raised"}

Sentinels == {j \in 1..Len(out) : out[j] = Done}

NoErrorEvent == \A k \in 1..Len(events) : events[k].error_type = <<>>

\* a backend text event with text
IsTextFragment(ev) ==
    /\ ev.error_type = <<>>
    /\ ~ev.meta
    /\ ev.attachment = <<>>
    /\ ev.text # <<>>

ContainsMarker(ev) == IsTextFragment(ev) /\ Contains(ev.text, ThinkingMarker)

NoMarkerEvent == \A k \in 1..Len(events) : ~ContainsMarker(events[k])

\* what an event adds to the accumulated backend text
Piece(ev) ==
    IF ev.error_type # <<>> \/ ev.meta THEN <<>>
    ELSE IF ev.attachment # <<>>
    THEN ImagePrefix \o ev.attachment \o ImageSuffix
    ELSE ev.text

\* the accumulated backend text once event k has been received
AccText(k) == Concat([i \in 1..k |-> Piece(events[i])])

\* event k is a marker fragment and the accumulated text does not begin
\* with the started string
IsMarkerEvent(k) ==
    /\ ContainsMarker(events[k])
    /\ ~StartsWith(AccText(k), ThinkingStarted)

\* the thinking sub-state in which event k arrives
StartedBefore(k) == \E i \in 1..(k - 1) : IsMarkerEvent(i)
FinishedBefore(k) ==
    \E i \in 1..(k - 1) :
        IsTextFragment(events[i]) /\ ~IsMarkerEvent(i) /\ StartedBefore(i)
ActiveBefore(k) == StartedBefore(k) /\ ~FinishedBefore(k)

\* the events handled so far
Handled == 1..(pos - 1)

\* the positions of out that the handling of event k wrote
CausedBy(k) == {j \in 1..Len(out) : cause[j] = k}

IsContentChunk(c) == c.item = "chunk" /\ c.delta = "content"
IsToolCallChunk(c) == c.item = "chunk" /\ c.delta = "tool_calls"

ContentChunks == SelectSeq(out, IsContentChunk)
ToolCallChunksOut == SelectSeq(out, IsToolCallChunk)

(***************************************************************************)
(* C1.  Every streaming response that runs to its end emits exactly one   *)
(* terminal sentinel, on every path: exhaustion of the backend stream, a   *)
(* backend Error event, a PoeAPIError of the backend call, and any other   *)
(* exception raised while translating; never zero and never two.           *)
(* The code does not keep this: after an Error event the loop goes on and  *)
(* sends a second sentinel, and an exception other than PoeAPIError ends   *)
(* the stream with none.                                                   *)
(***************************************************************************)
C1_ExactlyOneSentinel == Ended => Cardinality(Sentinels) = 1

(***************************************************************************)
(* C2.  After a backend Error event the translator emits one error chunk   *)
(* and the sentinel and stops: no later backend event is translated and    *)
(* nothing at all is emitted after that sentinel.                          *)
(* The code does not keep this: the loop of stream_generator goes on.      *)
(***************************************************************************)
C2_ErrorStopsTranslation ==
    \A j \in 1..Len(out) :
        out[j].item = "error" =>
            /\ Len(out) = j + 1
            /\ out[j + 1] = Done
            /\ pos = cause[j] + 1

(***************************************************************************)
(* C3.  When the backend stream is exhausted without any error, the        *)
(* output ends with one terminal delta chunk (empty delta, finish_reason   *)
(* not null) immediately followed by the sentinel, which is the last item; *)
(* every item before the terminal delta is a chunk with finish_reason      *)
(* null.                                                                   *)
(***************************************************************************)
C3_TerminalDeltaThenSentinel ==
    (pc = "done" /\ NoErrorEvent) =>
        /\ Len(out) >= 2
        /\ out[Len(out)] = Done
        /\ out[Len(out) - 1].item = "chunk"
        /\ out[Len(out) - 1].delta = "empty"
        /\ out[Len(out) - 1].finish_reason # "null"
        /\ \A j \in 1..(Len(out) - 2) :
               out[j].item = "chunk" /\ out[j].finish_reason = "null"

\* an exhausted stream without error that sent chunks before the terminal one
C3_Witness == pc = "done" /\ NoErrorEvent /\ Len(out) > 3

\* SpecCoalesce: the text of the marker fragments, which are all events but
\* the last
MarkerText == AccText(Len(events) - 1)

\* SpecCoalesce: one started chunk, one separator chunk, the clean fragment,
\* the terminal chunk with finish_reason "stop", the sentinel
Coalesced ==
    <<ContentChunk(ThinkingStarted), ContentChunk(Separator),
      ContentChunk(events[Len(events)].text), FinishChunk("stop"), Done>>

(***************************************************************************)
(* C4, as stated.  Any n >= 1 consecutive text fragments that contain the  *)
(* marker, followed by one clean fragment, give exactly one started chunk, *)
(* then exactly one separator chunk, then the clean fragment, then the     *)
(* terminal chunk with finish_reason "stop", whatever n is.                *)
(* This fails when the marker fragments begin with the started string      *)
(* itself: the code then takes no fragment for a marker (api.py 394-396).  *)
(***************************************************************************)
C4_Coalescing == pc = "done" => out = Coalesced

(***************************************************************************)
(* C4, amended.  The same, provided the text of the marker fragments does  *)
(* not begin with the started string `*Thinking...*'.                      *)
(***************************************************************************)
C4_CoalescingUnlessStarted ==
    (pc = "done" /\ ~StartsWith(MarkerText, ThinkingStarted)) =>
        out = Coalesced

\* three marker fragments were coalesced
C4_Witness ==
    /\ pc = "done"
    /\ Len(events) = 4
    /\ ~StartsWith(MarkerText, ThinkingStarted)

(***************************************************************************)
(* C5.  A text fragment that contains the marker, received while the       *)
(* accumulated backend text does not begin with the started string, is     *)
(* never forwarded: in any thinking sub-state all it can cause is the      *)
(* started chunk, which is sent once per stream.                           *)
(***************************************************************************)
C5_MarkerNeverForwarded ==
    \A k \in Handled :
        IsMarkerEvent(k) =>
            /\ \A j \in CausedBy(k) : out[j] = ContentChunk(ThinkingStarted)
            /\ Cardinality(CausedBy(k)) = IF StartedBefore(k) THEN 0 ELSE 1

\* marker fragments were handled in all three sub-states
C5_Witness ==
    /\ pos = 4
    /\ IsMarkerEvent(1)
    /\ IsMarkerEvent(3)
    /\ FinishedBefore(3)
    /\ events[3].text = ThinkingStarted

(***************************************************************************)
(* C6.  A text fragment without the marker that arrives while thinking is  *)
(* Active moves the sub-state to Finished and causes exactly one separator *)
(* chunk, which is the first item its handling emits; a text fragment      *)
(* without the marker that arrives in NotStarted or Finished causes no     *)
(* separator.                                                              *)
(***************************************************************************)
C6_SeparatorOnce ==
    \A k \in Handled :
        (IsTextFragment(events[k]) /\ ~ContainsMarker(events[k])) =>
            IF ActiveBefore(k)
            THEN /\ CausedBy(k) # {}
                 /\ \A j \in CausedBy(k) :
                        (out[j] = ContentChunk(Separator))
                            <=> (\A i \in CausedBy(k) : j <= i)
                 /\ thinking_state.finished
            ELSE \A j \in CausedBy(k) : out[j] # ContentChunk(Separator)

\* a clean fragment ended thinking and a later one arrived in Finished
C6_Witness ==
    /\ pos = 4
    /\ IsMarkerEvent(1)
    /\ IsTextFragment(events[2]) /\ ~ContainsMarker(events[2])
    /\ IsTextFragment(events[3]) /\ ~ContainsMarker(events[3])
    /\ Cardinality(CausedBy(2)) = 2

\* the events among the first k that carry content
Carriers(k) ==
    SelectSeq([i \in 1..k |-> events[i]], LAMBDA ev : Piece(ev) # <<>>)

\* one content chunk per event, with what the event carries
Verbatim(evs) == [i \in 1..Len(evs) |-> ContentChunk(Piece(evs[i]))]

(***************************************************************************)
(* C7.  Without tools, markers and errors, the content chunks of the       *)
(* output are, in order, one per event that carries content: each          *)
(* non-empty text fragment verbatim (and each attachment's image link),    *)
(* nothing merged, dropped or reordered, and every chunk is emitted by the *)
(* handling of its own event.                                              *)
(***************************************************************************)
C7_VerbatimInOrder ==
    (~request_tools /\ NoMarkerEvent /\ NoErrorEvent) =>
        /\ ContentChunks = Verbatim(Carriers(pos - 1))
        /\ \A k \in Handled :
               Cardinality(CausedBy(k)) = IF Piece(events[k]) = <<>> THEN 0 ELSE 1
        /\ \A j \in 1..(Len(cause) - 1) :
               cause[j + 1] # 0 => (cause[j] # 0 /\ cause[j] <= cause[j + 1])

\* three text fragments were forwarded
C7_Witness ==
    /\ ~request_tools /\ NoMarkerEvent /\ NoErrorEvent
    /\ pc = "done"
    /\ Len(ContentChunks) = 3
    /\ \A k \in 1..3 : IsTextFragment(events[k])

(***************************************************************************)
(* C8.  Inline-XML path: one well-formed tool-call block delivered in two  *)
(* fragments, split anywhere inside the block, gives no content chunk,     *)
(* exactly one tool-call chunk with the complete name and arguments, and   *)
(* the terminal chunk with finish_reason "tool_calls".                     *)
(* The code does not keep this when the split falls inside the opening     *)
(* tag: see C9.                                                            *)
(***************************************************************************)
C8_SplitBlockIsOneToolCall ==
    (pc = "done" /\ Len(events) = 2 /\ AccText(2) = WeatherBlock) =>
        /\ ContentChunks = <<>>
        /\ Len(ToolCallChunksOut) = 1
        /\ ToolCallChunksOut[1].call.name = GetWeather
        /\ ToolCallChunksOut[1].call.arguments = CityNYC
        /\ out[Len(out) - 1] = FinishChunk("tool_calls")

\* the characters of the prose of SplitTexts
ProseChars == {Prose[i] : i \in 1..Len(Prose)}

(***************************************************************************)
(* C9.  Inline-XML path: no content chunk carries text of a tool-call      *)
(* block, however the block is split across fragments.  The texts of       *)
(* SplitTexts have prose of the characters of Prose only, none of which    *)
(* occurs in the block, so a content chunk may hold those characters only. *)
(* The code does not keep this: extract_tool_calls_from_stream holds text  *)
(* back only once a complete opening tag has been received.                *)
(***************************************************************************)
C9_NoToolCallTextAsProse ==
    \A j \in 1..Len(out) :
        IsContentChunk(out[j]) =>
            \A i \in 1..Len(out[j].content) : out[j].content[i] \in ProseChars

RECURSIVE NonFiniteFrom(_, _, _)
NonFiniteFrom(s, i, inString) ==
    IF i > Len(s) THEN FALSE
    ELSE IF inString
    THEN IF s[i] = "\\" THEN NonFiniteFrom(s, i + 2, TRUE)
         ELSE NonFiniteFrom(s, i + 1, s[i] # "\"")
    ELSE \/ HasAt(s, <<"N","a","N">>, i)
         \/ HasAt(s, <<"I","n","f","i","n","i","t","y">>, i)
         \/ NonFiniteFrom(s, i + 1, s[i] = "\"")

\* s is a JSON text
ValidJson(s) == JsonLoads(s) /\ ~NonFiniteFrom(s, 1, FALSE)

(***************************************************************************)
(* C11.  For every argument text the ToolCall's arguments string is valid  *)
(* JSON: the text itself if it is valid, else its repair with bare keys     *)
(* quoted if that is valid, else the text wrapped as a JSON string; the    *)
(* parse always returns a ToolCall.                                        *)
(* The code does not keep this: it takes for valid what json.loads         *)
(* accepts, and json.loads accepts NaN, Infinity and -Infinity.            *)
(***************************************************************************)
C11_ArgumentsAreJson ==
    parsed.called =>
        /\ Len(parsed.calls) = 1
        /\ ValidJson(parsed.calls[1].arguments)
        /\ parsed.calls[1].arguments =
               IF ValidJson(blocks[1].args) THEN blocks[1].args
               ELSE IF ValidJson(QuoteKeysFrom(blocks[1].args, 1))
               THEN QuoteKeysFrom(blocks[1].args, 1)
               ELSE JsonDumps(blocks[1].args)

(***************************************************************************)
(* C12.  For every input text, parse_tool_calls run on its own cleaned     *)
(* output returns the same cleaned output and no tool calls, and the       *)
(* cleaned output of the first run holds no complete tool-call block.      *)
(* The code does not keep this: it removes the blocks once, and what is    *)
(* left around a removed block can form a block.                           *)
(***************************************************************************)
C12_ParseIsIdempotent ==
    /\ parsed.called => FindIter(parsed.cleaned, 1) = <<>>
    /\ reparsed.called =>
           /\ reparsed.cleaned = parsed.cleaned
           /\ reparsed.calls = <<>>

\* the ids of the tool calls sent so far, in order
IdsOut == [j \in 1..Len(ToolCallChunksOut) |-> ToolCallChunksOut[j].call.id]

(***************************************************************************)
(* C13.  Within one response no tool-call id is emitted twice, on the      *)
(* native and on the inline-XML path, across all backend fragments, ids    *)
(* synthesized for calls that came without one included.                   *)
(* The code does not keep this on the native path: the synthesized id is   *)
(* the call's position in its own fragment.                                *)
(***************************************************************************)
C13_IdsAreDistinct ==
    \A i, j \in 1..Len(IdsOut) : i # j => IdsOut[i] # IdsOut[j]

\* what one step of the generator does to the finish_reason accumulator
FinishReasonStep ==
    /\ (Len(ToolCallChunksOut') > Len(ToolCallChunksOut))
           => (tool_state'.finish_reason = "tool_calls")
    /\ (tool_state.finish_reason = "tool_calls")
           => (tool_state'.finish_reason = "tool_calls")
    /\ tool_state'.finish_reason \in {"stop", "tool_calls"}
    /\ (pc' = "done")
           => (out'[Len(out') - 1] = FinishChunk(tool_state'.finish_reason))

(***************************************************************************)
(* C14.  The finish_reason accumulator of a stream starts at "stop", is    *)
(* "tool_calls" after every step in which the extractor (native or         *)
(* inline-XML) reported a call, which is a step that sends a tool-call     *)
(* chunk, never returns to "stop", and the terminal delta chunk of an      *)
(* exhausted stream carries exactly the accumulated value.                 *)
(***************************************************************************)
C14_FinishReasonAccumulates ==
    /\ [](pc = "start" => tool_state.finish_reason = "stop")
    /\ [][FinishReasonStep]_vars

\* a call was reported for the first event, text without calls came after it,
\* and the stream was exhausted
C14_Witness ==
    /\ pc = "done"
    /\ Len(events) = 3
    /\ \E j \in CausedBy(1) : IsToolCallChunk(out[j])
    /\ \E j \in CausedBy(3) : IsContentChunk(out[j])
    /\ out[Len(out) - 1] = FinishChunk("tool_calls")

\* the step in which the generator finds the backend stream exhausted
ExhaustedStep == pc = "stream" /\ pc' = "done"

\* the tool calls in the entire accumulated text
CallsInAccumulated == FindIter(AccText(Len(events)), 1)

\* what the exhaustion step does when the buffer holds text: one parse of
\* the accumulated text, which draws one id per call it finds
FinalParseStep ==
    /\ drawn' = drawn + Len(CallsInAccumulated)
    /\ out'[Len(out') - 1] =
           FinishChunk(IF CallsInAccumulated # <<>> THEN "tool_calls"
                       ELSE tool_state.finish_reason)

\* what it does when the buffer is empty
NoFinalParseStep ==
    /\ drawn' = drawn
    /\ out'[Len(out') - 1] = FinishChunk(tool_state.finish_reason)

(***************************************************************************)
(* C15.  On exhaustion of the stream in inline-XML mode, if the pending    *)
(* buffer is not empty the entire accumulated text is parsed once more and *)
(* the terminal chunk has finish_reason "tool_calls" when that parse finds *)
(* a call; if the buffer is empty no final parse is made and the terminal  *)
(* chunk has the finish_reason accumulated so far.                         *)
(***************************************************************************)
C15_FinalParse ==
    [][(ExhaustedStep /\ request_tools /\ ~use_native_tools) =>
          IF tool_state.buffer # <<>> THEN FinalParseStep
          ELSE NoFinalParseStep]_vars

\* the final parse found a call that the fragments had not shown
C15_Witness ==
    /\ pc = "done"
    /\ request_tools /\ ~use_native_tools
    /\ tool_state.buffer # <<>>
    /\ ToolCallChunksOut = <<>>
    /\ out[Len(out) - 1] = FinishChunk("tool_calls")

(***************************************************************************)
(* What the properties of the Message Adapter speak about.                 *)
(***************************************************************************)
\* convert_to_poe_messages has returned
Adapted == apc \in {"adapted", "called", "awaited"}

\* the attachments carried by the protocol messages, over all messages
CarriedCount ==
    Len(Concat([i \in 1..Len(poe_messages) |-> poe_messages[i].attachments]))

\* the items of the prepared messages whose upload succeeds, and the
\* explicit attachments
UploadedItems ==
    {id \in (1..Len(messages_list)) \X (1..MaxItems) :
        /\ id[2] <= Len(messages_list[id[1]].content)
        /\ messages_list[id[1]].content[id[2]].kind \in {"image", "file"}
        /\ messages_list[id[1]].content[id[2]].fate = "ok"}

AttachmentsOfRequest ==
    UploadedItems \cup {request.attachments[k] : k \in 1..Len(request.attachments)}

\* the message that has to carry the attachments
CarrierIndex ==
    IF \E i \in 1..Len(poe_messages) : poe_messages[i].role = "user"
    THEN Max({i \in 1..Len(poe_messages) : poe_messages[i].role = "user"})
    ELSE Len(poe_messages)

Uploads == {p \in 1..Len(trace) : trace[p].op = "upload"}
FailedUploads == {p \in Uploads : ~trace[p].ok}
BackendSteps == {p \in 1..Len(trace) : trace[p].op \in {"call", "event"}}

(***************************************************************************)
(* C16.  For a conversation of at least one message the adapter returns    *)
(* one protocol message per input message, in the same order: message i    *)
(* has the translated role of input i (assistant becomes bot, system and   *)
(* user stay) and whatever file URI is left in its text is one of input i. *)
(***************************************************************************)
C16_OneMessagePerInput ==
    (Adapted /\ messages_list # <<>>) =>
        /\ Len(poe_messages) = Len(messages_list)
        /\ \A i \in 1..Len(messages_list) :
              /\ messages_list[i].role = "assistant"
                    => poe_messages[i].role = "bot"
              /\ messages_list[i].role \in {"system", "user"}
                    => poe_messages[i].role = messages_list[i].role
              /\ \A k \in 1..Len(poe_messages[i].content) :
                    poe_messages[i].content[k].tok = "file"
                        => poe_messages[i].content[k].id[1] = i

\* a conversation that starts with the assistant and has an empty message
\* and an image was adapted
C16_Witness ==
    /\ Adapted
    /\ Len(messages_list) >= 2
    /\ messages_list[1].role = "assistant"
    /\ \E i \in 1..Len(messages_list) : messages_list[i].content = <<>>
    /\ \E i \in 1..Len(messages_list) :
          \E k \in 1..Len(messages_list[i].content) :
              messages_list[i].content[k].kind = "image"

(***************************************************************************)
(* C17.  After adaptation every attachment of the request (uploaded image, *)
(* uploaded file reference, explicit attachment) is carried once, by one   *)
(* message: the last message of role user, or the last message when there  *)
(* is none; every other message has no attachment.                         *)
(***************************************************************************)
C17_OneCarrier ==
    (Adapted /\ messages_list # <<>>) =>
        /\ \A i \in 1..Len(poe_messages) :
              i # CarrierIndex => poe_messages[i].attachments = <<>>
        /\ {poe_messages[CarrierIndex].attachments[k] :
               k \in 1..Len(poe_messages[CarrierIndex].attachments)}
              = AttachmentsOfRequest
        /\ CarriedCount = Cardinality(AttachmentsOfRequest)

\* an image of a later assistant message, a file and an explicit attachment
\* are carried by an earlier user message
C17_Witness ==
    /\ Adapted
    /\ Len(poe_messages) = 2
    /\ poe_messages[1].role = "user"
    /\ poe_messages[2].role = "bot"
    /\ Len(poe_messages[1].attachments) = 3
    /\ \E k \in 1..3 : poe_messages[1].attachments[k][1] = 2

(***************************************************************************)
(* C18.  A request whose conversation has no message is rejected by the    *)
(* adapter, and no backend call is made for it, whatever its settings.     *)
(***************************************************************************)
C18_EmptyConversationRejected ==
    request.messages = <<>> =>
        /\ BackendSteps = {}
        /\ apc \in {"idle", "received", "prepared", "rejected"}

(***************************************************************************)
(* C19.  A failure of the first upload aborts the adaptation; a failure of *)
(* a later upload is skipped and the adaptation still succeeds.            *)
(***************************************************************************)
C19_LaterFailureSkipped ==
    /\ apc = "failed" => FailedUploads = {Min(Uploads)}
    /\ (Adapted /\ Uploads # {}) => trace[Min(Uploads)].ok

(***************************************************************************)
(* C20.  Every upload of the adapter is made before the backend call       *)
(* starts: when the call is in the trace, every item of the conversation   *)
(* that is uploaded has been uploaded, earlier in the trace.  No backend   *)
(* call is made when the adapter fails, and no upload is made once a       *)
(* backend event has been awaited.                                         *)
(***************************************************************************)
C20_UploadsBeforeBackend ==
    /\ \A u \in Uploads : \A b \in BackendSteps : u < b
    /\ apc \in {"rejected", "failed", "raised"} => BackendSteps = {}
    /\ BackendSteps # {} => {trace[u].id : u \in Uploads} = UploadedItems

\* two uploads, then the call and its first event
C20_Witness ==
    /\ apc = "awaited"
    /\ Cardinality(Uploads) >= 2
    /\ Cardinality(BackendSteps) = 2

\* the adapter failed on an upload after another one had been made
C20_WitnessFailed ==
    /\ apc = "failed"
    /\ Cardinality(Uploads) >= 2

(***************************************************************************)
(* What the properties of the Tool Directive Injector speak about.         *)
(***************************************************************************)
\* the injector has to write the directive
DirectiveDue == request_tools /\ ~use_native_tools

\* the first call has ended
InjectEnded == apc \in {"injected", "raised"}

\* how often the directive stands in the messages
DirectiveCount ==
    Cardinality({p \in (1..Len(messages_list)) \X (1..(MaxItems + 2)) :
                    /\ p[2] <= Len(messages_list[p[1]].content)
                    /\ messages_list[p[1]].content[p[2]] = ToolPrompt})

\* the list is the request's with the directive before the content of
\* message i
PrependedAt(i) ==
    /\ Len(messages_list) = Len(request.messages)
    /\ messages_list[i].role = "system"
    /\ messages_list[i].content = <<ToolPrompt>> \o request.messages[i].content
    /\ \A j \in 1..Len(messages_list) :
          j # i => messages_list[j] = request.messages[j]

\* the list is the request's after a new system message with the directive
InsertedFirst ==
    /\ Len(messages_list) = Len(request.messages) + 1
    /\ messages_list[1].role = "system"
    /\ messages_list[1].content = <<ToolPrompt>>
    /\ \A j \in 1..Len(request.messages) :
          messages_list[j + 1] = request.messages[j]

(***************************************************************************)
(* C21.  The injector returns the message list unchanged when there are no *)
(* tools or the model uses native tools; otherwise it prepends the         *)
(* directive to the content of the first system message, or inserts a new  *)
(* system message holding it at index 0 when there is none; every other    *)
(* message is left as it was.                                              *)
(***************************************************************************)
C21_InjectorEffect ==
    InjectEnded =>
        /\ apc = "injected"
        /\ ~DirectiveDue => messages_list = request.messages
        /\ (DirectiveDue /\ FirstSystem(request.messages) # 0)
              => PrependedAt(FirstSystem(request.messages))
        /\ (DirectiveDue /\ FirstSystem(request.messages) = 0)
              => InsertedFirst

(***************************************************************************)
(* C22.  A second call of the injector on the list the first call returned *)
(* leaves it as it was: the directive stands in it once and no second      *)
(* system message was inserted.                                            *)
(***************************************************************************)
C22_InjectorIdempotent ==
    (apc = "injected_twice" /\ DirectiveDue) =>
        /\ DirectiveCount = 1
        /\ Len(messages_list) <= Len(request.messages) + 1

(***************************************************************************)
(* What the properties of the failures of a streaming response speak       *)
(* about.                                                                  *)
(***************************************************************************)
\* the in-band error chunk of api.py 643-652
IsInBandError(c) ==
    /\ c.item = "chunk"
    /\ c.delta = "empty"
    /\ c.finish_reason = "error"

\* the terminal delta chunk of a stream that ran to its end
IsTerminalDelta(c) ==
    /\ c.item = "chunk"
    /\ c.delta = "empty"
    /\ c.finish_reason \in {"stop", "tool_calls"}

InBandErrors == {j \in 1..Len(out) : IsInBandError(out[j])}

\* the output is `before' followed by one error chunk and the sentinel
EndsInBandAfter(before, after) ==
    /\ Len(after) = Len(before) + 2
    /\ SubSeq(after, 1, Len(before)) = before
    /\ IsInBandError(after[Len(before) + 1])
    /\ after[Len(after)] = Done

(***************************************************************************)
(* C23.  When the backend call fails with PoeAPIError, before the first    *)
(* event or after some chunks were sent, the chunks already emitted stay   *)
(* as they were, the output ends with one in-band error chunk followed by  *)
(* the sentinel, which is the only in-band error chunk of the output, the  *)
(* terminal delta chunk is not emitted, and nothing follows.               *)
(***************************************************************************)
C23_PoeErrorInBand ==
    [][ /\ (pc # "poe_error" /\ pc' = "poe_error") =>
               /\ EndsInBandAfter(out, out')
               /\ Cardinality(InBandErrors') = 1
               /\ \A j \in 1..Len(out') : ~IsTerminalDelta(out'[j])
        /\ pc = "poe_error" => (out' = out /\ pc' = pc) ]_vars

\* the backend call failed after content chunks had been sent
C23_Witness ==
    /\ pc = "poe_error"
    /\ Len(out) > 3
    /\ pos > 2

(***************************************************************************)
(* C24.  An exception other than PoeAPIError raised while a partial is     *)
(* translated ends the stream in band: the output is the chunks emitted    *)
(* before it, unchanged, then one error chunk, then the sentinel as the    *)
(* last item.                                                              *)
(* The code does not keep this: api.py 655-659 raises StreamingError out   *)
(* of the generator, which yields neither an error chunk nor the sentinel. *)
(***************************************************************************)
C24_ExceptionInBand ==
    (pc = "raised" /\ pos > 1) =>
        /\ Len(out) >= 2
        /\ out[Len(out)] = Done
        /\ IsInBandError(out[Len(out) - 1]) \/ out[Len(out) - 1].item = "error"

(***************************************************************************)
(* C26.  When the client disconnects while stream_generator is suspended,  *)
(* the generator ends there: the step that cancels it takes no backend     *)
(* event and yields nothing, neither a chunk nor an error chunk nor the    *)
(* sentinel, and nothing is taken or yielded afterwards.                   *)
(***************************************************************************)
C26_CancelStops ==
    [][ /\ (pc # "cancelled" /\ pc' = "cancelled") =>
               (out' = out /\ pos' = pos)
        /\ pc = "cancelled" =>
               (out' = out /\ pos' = pos /\ pc' = "cancelled") ]_vars

\* cancelled in the loop, after chunks were sent and with events left
C26_Witness ==
    /\ pc = "cancelled"
    /\ Len(out) >= 2
    /\ pos > 1
    /\ pos <= Len(events)
    /\ Sentinels = {}

(***************************************************************************)
(* What the isolation of two requests speaks about.                        *)
(***************************************************************************)
RECURSIVE AloneFrom(_, _, _, _, _)
\* what a generator served alone yields from its k-th backend event on,
\* being in state st
AloneFrom(evs, k, st, tools, native) ==
    IF k > Len(evs)
    THEN FinalChunks(FinalFinishReason(st.tool_state,
             FinalToolCalls(tools, st.tool_state, st.accumulated_content,
                            st.drawn)))
    ELSE LET r == HandleStreamingPartial(evs[k], st, tools, native)
         IN  IF r.raised THEN r.chunks
             ELSE r.chunks \o AloneFrom(evs, k + 1, r.st, tools, native)

\* what the request of a frame yields when no other request is served
Alone(frame) ==
    AloneFrom(frame.events, 1,
              [accumulated_content |-> <<>>,
               thinking_state      |-> [started |-> FALSE, finished |-> FALSE],
               tool_state          |-> [buffer |-> <<>>,
                                        finish_reason |-> "stop"],
               drawn               |-> 0],
              frame.request_tools, frame.use_native_tools)

\* a chunk without the value of the uuid4 in the id of its call
Anonymous(chunk) ==
    IF chunk.call.id # <<>> /\ chunk.call.id[1] = "uuid"
    THEN [chunk EXCEPT !.call.id = <<"uuid">>]
    ELSE chunk

\* the chunks sent to the request of a frame are those it is sent alone
AsAlone(frame) ==
    \E alone \in {Alone(frame)} :
        /\ Len(frame.out) = Len(alone)
        /\ \A j \in 1..Len(alone) :
               Anonymous(frame.out[j]) = Anonymous(alone[j])

(***************************************************************************)
(* C27.  Two streaming requests served concurrently by one handler: for    *)
(* every interleaving of their backend events, when both generators have   *)
(* returned each request has been sent the chunks it would be sent if it   *)
(* were served alone, the values of the uuids apart.                       *)
(***************************************************************************)
C27_Isolation ==
    (pc = "done" /\ peer.pc = "done") =>
        /\ AsAlone(Frame)
        /\ AsAlone(peer)

\* both generators have returned, one with a tool call and one without
C27_Witness ==
    /\ pc = "done"
    /\ peer.pc = "done"
    /\ Len(events) = MaxPeerEvents
    /\ Len(peer.events) = MaxPeerEvents
    /\ events # peer.events
    /\ tool_state.finish_reason # peer.tool_state.finish_reason

(***************************************************************************)
(* What the properties of the non-streaming path speak about.              *)
(***************************************************************************)
\* the backend events get_complete_response has taken
Taken == {k \in 1..(cpos - 1) : k <= Len(events)}

(***************************************************************************)
(* C25.  In the non-streaming path a backend failure never ends in a       *)
(* returned response: when get_complete_response returns a text, no event  *)
(* it took from the backend stream was an Error event.                     *)
(* The code does not keep this: the loop of poe_client.py 429-437 never    *)
(* looks at error_type and appends the text of the Error event.            *)
(***************************************************************************)
C25_FailureNeverReturns ==
    cpc = "returned" => \A k \in Taken : events[k].error_type = <<>>

\* the reasoning model's text is one the finalizer has to clean
NeedsCleaning ==
    /\ is_reasoning_model
    /\ Contains(complete_response, ThinkingMarker)
    /\ ~StartsWith(complete_response, ThinkingStarted)

ThinkingPrefix == ThinkingStarted \o Separator

(***************************************************************************)
(* C28.  The tuple get_complete_response returns, by case.  For a model    *)
(* that is no reasoning model: the accumulated text, unchanged, and the    *)
(* estimate 0.  For a reasoning model whose text holds the marker and does *)
(* not begin with *Thinking...*: the prefix *Thinking...*\n\n followed by  *)
(* the cleaned text, which is not empty, or by the filler sentence when    *)
(* the cleaning left nothing.  For a reasoning model otherwise: the        *)
(* accumulated text, unchanged.                                            *)
(***************************************************************************)
C28_FinalizerByCase ==
    cpc = "returned" =>
        /\ ~is_reasoning_model =>
               /\ returned.text = complete_response
               /\ returned.reasoning_tokens = 0
        /\ NeedsCleaning =>
               /\ StartsWith(returned.text, ThinkingPrefix)
               /\ Len(returned.text) > Len(ThinkingPrefix)
               /\ Drop(returned.text, Len(ThinkingPrefix) + 1) =
                     IF CleanResponse(complete_response) = <<>>
                     THEN ThinkingFiller
                     ELSE CleanResponse(complete_response)
        /\ (is_reasoning_model /\ ~NeedsCleaning) =>
               returned.text = complete_response

\* a reasoning model's text of several fragments from which the cleaning
\* took something and left something
C28_Witness ==
    /\ cpc = "returned"
    /\ NeedsCleaning
    /\ Len(events) >= 2
    /\ CleanResponse(complete_response) # <<>>
    /\ Len(CleanResponse(complete_response)) < Len(complete_response)

\* what the spec gives as an example of the estimate
EstimateExample ==
    <<Partial(ThinkingMarker), Partial(ThinkingMarker \o Elapsed),
      Partial(Answer)>>

(***************************************************************************)
(* C29 as stated.  The estimate of a reasoning model's text is the largest *)
(* N of its annotations (Ns elapsed) times 75 when it has one; otherwise   *)
(* the number of characters the reasoning patterns matched, divided by 4   *)
(* and rounded down; 0 for the empty text.                                 *)
(* The code takes the annotations into account only when the text holds    *)
(* the marker, and counts 40 more characters for every marker.             *)
(***************************************************************************)
C29_EstimateAsStated ==
    (cpc = "returned" /\ is_reasoning_model) =>
        returned.reasoning_tokens =
            IF complete_response = <<>> THEN 0
            ELSE IF TimeMatches(complete_response) # {}
            THEN Max(TimeMatches(complete_response)) * tokens_per_second
            ELSE Len(ReasoningContent(complete_response)) \div chars_per_token

(***************************************************************************)
(* C29.  The estimate of a reasoning model's text is the largest N of its  *)
(* annotations (Ns elapsed) times 75 when the text holds the marker and an *)
(* annotation, 3 * 75 for the example of the spec; otherwise the number of *)
(* characters the reasoning patterns matched plus 40 for every marker of   *)
(* the text, divided by 4 and rounded down; 0 for the empty text.          *)
(***************************************************************************)
C29_Estimate ==
    (cpc = "returned" /\ is_reasoning_model) =>
        /\ returned.reasoning_tokens =
              IF complete_response = <<>> THEN 0
              ELSE IF /\ Contains(complete_response, ThinkingMarker)
                      /\ TimeMatches(complete_response) # {}
              THEN Max(TimeMatches(complete_response)) * tokens_per_second
              ELSE (Len(ReasoningContent(complete_response))
                    + Count(complete_response, ThinkingMarker, 1)
                      * tokens_per_thinking_occurrence) \div chars_per_token
        /\ events = EstimateExample =>
              returned.reasoning_tokens = 3 * tokens_per_second

\* a text with two different annotations: the larger one decides
C29_Witness ==
    /\ cpc = "returned"
    /\ is_reasoning_model
    /\ TimeMatches(complete_response) = {3, 12}
    /\ returned.reasoning_tokens = 12 * tokens_per_second

\* the backend stream holds text fragments only
OnlyText == \A k \in 1..Len(events) : IsTextFragment(events[k])

\* the concatenation of the content deltas the stream sent
StreamedText ==
    Concat([j \in 1..Len(ContentChunks) |-> ContentChunks[j].content])

(***************************************************************************)
(* C30.  For the same text fragments on a reasoning model without tools,   *)
(* the text get_complete_response returns is the concatenation of the      *)
(* content deltas stream_generator sends.                                  *)
(* The code does not keep this: the one-shot cleaning adds the filler      *)
(* sentence, collapses and strips whitespace and moves the prefix to the   *)
(* front, none of which the streaming path does.                           *)
(***************************************************************************)
C30_PathsAgree ==
    (pc = "done" /\ cpc = "returned" /\ is_reasoning_model /\ OnlyText) =>
        returned.text = StreamedText

(***************************************************************************)
(* What the properties of the native tool path speak about.                *)
(***************************************************************************)
\* event k is a backend fragment that carries structured tool calls
CarriesCalls(k) ==
    /\ events[k].error_type = <<>>
    /\ ~events[k].meta
    /\ events[k].attachment = <<>>
    /\ events[k].data.present
    /\ ~events[k].data.malformed
    /\ events[k].data.tool_calls # <<>>

\* the tool-call chunks that the handling of event k wrote
CallChunksOf(k) == {j \in CausedBy(k) : IsToolCallChunk(out[j])}

(***************************************************************************)
(* C31.  On the native tool path every backend fragment that carries       *)
(* structured tool calls yields one tool-call chunk per call and leaves    *)
(* finish_reason at "tool_calls", whether it carries text or not.          *)
(* The code does not keep this: a fragment without text is dropped before  *)
(* the tool handling is reached (api.py 388-389).                          *)
(***************************************************************************)
C31_NativeCallsForwarded ==
    use_native_tools =>
        \A k \in Handled :
            CarriesCalls(k) =>
                /\ Cardinality(CallChunksOf(k)) =
                      Len(events[k].data.tool_calls)
                /\ tool_state.finish_reason = "tool_calls"

(***************************************************************************)
(* What the properties of the thinking sub-state speak about.              *)
(***************************************************************************)
\* the started chunks sent: written by _handle_thinking_pattern for a
\* marker fragment
StartedChunksOut ==
    {j \in 1..Len(out) : /\ out[j] = ContentChunk(ThinkingStarted)
                         /\ cause[j] # 0
                         /\ IsMarkerEvent(cause[j])}

\* the separator chunks sent: the blank line that is no backend text
SeparatorChunksOut ==
    {j \in 1..Len(out) : /\ out[j] = ContentChunk(Separator)
                         /\ cause[j] # 0
                         /\ events[cause[j]].text # Separator}

\* NotStarted -> Active -> Finished has no way back
ThinkingForward ==
    /\ thinking_state.started => thinking_state'.started
    /\ thinking_state.finished => thinking_state'.finished

(***************************************************************************)
(* C32.  The thinking sub-state only moves forward, NotStarted to Active   *)
(* to Finished: no step takes started or finished back; Active and         *)
(* Finished imply that the started chunk was sent, Finished that the       *)
(* separator was sent; over the whole stream the started chunk and the     *)
(* separator chunk are each sent at most once, the separator after the     *)
(* started chunk.                                                          *)
(***************************************************************************)
C32_ThinkingOnlyForward ==
    /\ [][ThinkingForward]_vars
    /\ [](/\ thinking_state.finished => thinking_state.started
          /\ thinking_state.started <=> StartedChunksOut # {}
          /\ thinking_state.finished <=> SeparatorChunksOut # {}
          /\ Cardinality(StartedChunksOut) <= 1
          /\ Cardinality(SeparatorChunksOut) <= 1
          /\ \A j \in SeparatorChunksOut :
                 \E i \in StartedChunksOut : i < j)

\* a stream that went through the three sub-states and met markers again
C32_Witness ==
    /\ pc = "done"
    /\ thinking_state.finished
    /\ Cardinality({k \in 1..Len(events) : ContainsMarker(events[k])}) >= 2
    /\ Cardinality(StartedChunksOut) = 1
    /\ Cardinality(SeparatorChunksOut) = 1

(***************************************************************************)
(* What the properties of single backend events speak about.               *)
(***************************************************************************)
\* the step in which the generator takes the next backend event
TakesEvent == pc = "stream" /\ pos <= Len(events) /\ pos' = pos + 1

\* the event taken is metadata only
TakesMeta ==
    /\ TakesEvent
    /\ events[pos].error_type = <<>>
    /\ events[pos].meta

\* the event taken holds the url of an attachment
TakesAttachment ==
    /\ TakesEvent
    /\ events[pos].error_type = <<>>
    /\ ~events[pos].meta
    /\ events[pos].attachment # <<>>

\* "\n![Image](url)\n" for the event taken
ImageReference == ImagePrefix \o events[pos].attachment \o ImageSuffix

(***************************************************************************)
(* C33.  A metadata-only backend event is never forwarded and changes      *)
(* nothing: the step that takes it yields no chunk and leaves the          *)
(* accumulated text, the thinking sub-state, the tool buffer and           *)
(* finish_reason as they were, and the generator goes on with the loop.    *)
(***************************************************************************)
C33_MetaIsNoOp ==
    [][ TakesMeta =>
            /\ out' = out
            /\ accumulated_content' = accumulated_content
            /\ thinking_state' = thinking_state
            /\ tool_state' = tool_state
            /\ pc' = "stream" ]_vars

\* a metadata event was taken while thinking was Active, after chunks
C33_Witness ==
    /\ pos > 2
    /\ events[pos - 1].meta
    /\ thinking_state.started
    /\ ~thinking_state.finished
    /\ out # <<>>

Combined == tool_state.buffer \o events[pos].text

\* the step takes a text fragment that leaves a call open: the carried
\* buffer and the fragment hold an opening tag and no closing tag
TakesOpenCall ==
    /\ TakesEvent
    /\ request_tools
    /\ ~use_native_tools
    /\ IsTextFragment(events[pos])
    /\ ~ContainsMarker(events[pos])
    /\ Contains(Combined, ToolCallOpen)
    /\ ~Contains(Combined, ToolCallClose)

(***************************************************************************)
(* C35.  An extraction step with an open call: when the carried buffer     *)
(* followed by the fragment holds an opening <tool_call> tag and no        *)
(* closing tag, the step yields no content and no tool call, and the new   *)
(* buffer is the carried buffer followed by the fragment.                  *)
(***************************************************************************)
C35_OpenCallBuffers ==
    [][ TakesOpenCall =>
            /\ out' = out
            /\ tool_state'.buffer = Combined
            /\ tool_state'.finish_reason = tool_state.finish_reason ]_vars

\* a fragment was taken into a buffer that already held text, and the call
\* is still open
C35_Witness ==
    /\ pos = 3
    /\ Contains(tool_state.buffer, ToolCallOpen)
    /\ ~Contains(tool_state.buffer, ToolCallClose)
    /\ Len(tool_state.buffer) > Len(events[2].text)

\* the backend text of the whole stream
BackendText == AccText(Len(events))

\* name and arguments of the calls of a list of tool-call chunks or of
\* parsed calls
NamesAndArguments(calls) ==
    [k \in 1..Len(calls) |-> <<calls[k].name, calls[k].arguments>>]

StreamedCalls ==
    NamesAndArguments([k \in 1..Len(ToolCallChunksOut) |->
                          ToolCallChunksOut[k].call])

(***************************************************************************)
(* C36.  Streaming and full-text extraction agree: however the backend     *)
(* text is split into fragments, the tool-call chunks of the inline-XML    *)
(* path carry the names and arguments, in the same order, of the calls the *)
(* full-text parser returns for the whole text, and the terminal chunk     *)
(* carries the finish_reason of the non-streaming path for that text.      *)
(* The code does not keep this: a block whose opening tag is split between *)
(* two fragments is never reported by the streaming path.                  *)
(***************************************************************************)
C36_StreamingAgreesWithFullText ==
    (pc = "done" /\ request_tools /\ ~use_native_tools) =>
        \A full \in {NonStreamingParse(TRUE, FALSE, BackendText, 0)} :
            /\ StreamedCalls = NamesAndArguments(full.tool_calls)
            /\ out[Len(out) - 1] = FinishChunk(full.finish_reason)

\* the pieces of text s that lie outside its complete blocks: before the
\* first, between two, and after the last
PieceStart(s, ms, k) == IF k = 1 THEN 1 ELSE ms[k - 1].end
PieceEnd(s, ms, k) == IF k = Len(ms) + 1 THEN Len(s) ELSE ms[k].start - 1

PiecesOutside(s, ms) ==
    {SubSeq(s, PieceStart(s, ms, k), PieceEnd(s, ms, k)) :
        k \in 1..(Len(ms) + 1)} \ {<<>>}

ProsePieces(s) == PiecesOutside(s, FindIter(s, 1))

\* the text of the content chunks sent so far
VisibleText ==
    Concat([k \in 1..Len(ContentChunks) |-> ContentChunks[k].content])

(***************************************************************************)
(* C37.  No prose is lost on the inline-XML path: when the terminal chunk  *)
(* has been sent, every piece of the backend text that lies outside a      *)
(* complete <tool_call> block (before, between or after blocks, or after   *)
(* an opening tag that is never closed) has been sent in a content chunk.  *)
(* The code does not keep this: prose in a fragment that completes a block *)
(* goes to the buffer, and the buffer is dropped or left unsent.           *)
(***************************************************************************)
C37_NoProseLost ==
    (pc = "done" /\ request_tools /\ ~use_native_tools) =>
        \A piece \in ProsePieces(BackendText) :
            Contains(VisibleText, piece)

RECURSIVE IsSubSeq(_, _)
\* a is b with some of its elements left out
IsSubSeq(a, b) ==
    IF a = <<>> THEN TRUE
    ELSE IF b = <<>> THEN FALSE
    ELSE IF Head(a) = Head(b) THEN IsSubSeq(Tail(a), Tail(b))
    ELSE IsSubSeq(a, Tail(b))

\* name and arguments of the complete blocks of the backend text, in order
BlocksOfBackendText ==
    NamesAndArguments(ParseToolCalls(BackendText, 0).calls)

(***************************************************************************)
(* C38.  On the inline-XML path each complete <tool_call> block of the     *)
(* backend text is sent as a tool-call chunk at most once: the calls sent  *)
(* so far are blocks of the backend text in their order, each taken at     *)
(* most once, and the pending buffer never holds a complete block, so no   *)
(* later fragment reports a block again.                                   *)
(***************************************************************************)
C38_BlockAtMostOnce ==
    /\ IsSubSeq(StreamedCalls, BlocksOfBackendText)
    /\ FindIter(tool_state.buffer, 1) = <<>>

\* the first fragment completed a block, which was sent, and the second
\* completed a further block
C38_Witness ==
    /\ pc = "done"
    /\ Len(events) = 2
    /\ \E j \in CausedBy(1) : IsToolCallChunk(out[j])
    /\ \E j \in CausedBy(2) : IsToolCallChunk(out[j])
    /\ Len(StreamedCalls) = 2
    /\ StreamedCalls[1] = StreamedCalls[2]

\* the terminal chunk of an exhausted stream
TerminalChunk == out[Len(out) - 1]

(***************************************************************************)
(* C39.  The terminal chunk of an exhausted stream carries finish_reason   *)
(* "tool_calls" only if the request had tools and a tool-call chunk was    *)
(* sent before it, and a request without tools ends with "stop".           *)
(* The code does not keep the first half: the final parse at exhaustion    *)
(* turns finish_reason to "tool_calls" without sending the calls it found. *)
(***************************************************************************)
C39_ToolCallsOnlyAfterCall ==
    pc = "done" =>
        /\ TerminalChunk = FinishChunk("tool_calls") =>
               request_tools /\ ToolCallChunksOut # <<>>
        /\ ~request_tools => TerminalChunk = FinishChunk("stop")

\* the reasoning model's text begins with the started string
AlreadyStarted ==
    /\ is_reasoning_model
    /\ StartsWith(complete_response, ThinkingStarted)

(***************************************************************************)
(* C40.  get_complete_response never normalizes twice: a reasoning         *)
(* model's text that already begins with *Thinking...* is returned         *)
(* unchanged, and the text returned, given to the same transform as the    *)
(* complete text of a response, is returned as it is.                      *)
(***************************************************************************)
C40_FinalizerOnce ==
    cpc = "returned" =>
        /\ AlreadyStarted => returned.text = complete_response
        /\ CompleteText(returned.text, is_reasoning_model) = returned.text

\* a reasoning model's text began with the started string and held a
\* further marker, and was returned
C40_Witness ==
    /\ cpc = "returned"
    /\ AlreadyStarted
    /\ Contains(Drop(complete_response, Len(ThinkingStarted) + 1),
                ThinkingMarker)
    /\ returned.text = complete_response

\* a reasoning model's text was cleaned, and the text returned differs from
\* the text received
C40_Cleaned ==
    /\ cpc = "returned"
    /\ NeedsCleaning
    /\ returned.text # complete_response

====
